---- MODULE Spec2Model ----
(***************************************************************************)
(* Model of the receipt-correction run of tests/example.spec.ts:           *)
(* parse -> group -> chunk -> for each batch: phase 1 (processReceipt per  *)
(* unit), phase 2 (triggerRunbook), phase 3 (submitOpenedReceipts).        *)
(* The target application and the job service are opaque: every value they *)
(* show is chosen nondeterministically, and an awaited call may throw.     *)
(***************************************************************************)
EXTENDS Integers, Sequences, FiniteSets, TLC

(* ------------------------------ bounds --------------------------------- *)
\* number of receipt groups in the input
MaxUnits == 2
\* invMasterIndex values range over 1..MaxRef
MaxRef == 2
\* config.receiptBatchSize ranges over 0..MaxBatchSize
MaxBatchSize == 2
\* polls of a submit wait that fit before Date.now() passes its deadline
MaxSubmitPolls == 2
\* polls of the job status that fit before the runbook deadline
MaxRunbookPolls == 2
\* the action list shows 0..MaxActionListCount items when it is not scripted
MaxActionListCount == 2
\* failed phase 3 submits (popup or timeout) the application produces per run
MaxPhase3Failures == 1

\* rows of the malformed-data file handed to the offline functions
MaxEntries == 3
\* distinct rcptMasterIndex values in those rows
MaxKey == 3
\* units handed to chunkArray, besides the documented example
MaxItems == 5
\* lines of the file parseMalformedData reads
MaxFileLines == 3
\* lines of the ledger files the aggregation script reads
MaxLedgerLines == 3
\* units of the runs whose progress is checked
LiveUnits == 1
\* items the action list shows at most in those runs
LivePending == 1
\* pending items left by an earlier run or batch
MaxCarryOver == 1
\* lines of the input file of a run whose ledger is aggregated
MaxRecordLines == 2

(* --------------------------- text and values --------------------------- *)
\* A text is a sequence of tokens; String.includes is token containment.
BlockingPhrase == "Matter does not allow payment activity. Receipt cannot be reversed."

Includes(msg, phrase) == \E i \in 1..Len(msg) : msg[i] = phrase

\* the popupMessage field of a result that carries none
Undefined == <<"undefined">>

\* msg = result.popupMessage ?? ''
Coalesce(m) == IF m = Undefined THEN <<>> ELSE m

\* texts the snack bar can show (after trim), the empty text included
PopupMessages ==
    { <<"Error:", BlockingPhrase>>,
      <<"Receipt reversed successfully">>,
      <<>> }

\* snackbarLocator.textContent() threw (the popup went away); it is caught
TextThrows == <<"textContent throws">>

\* what reading the text of a visible snack bar gives
PopupReads == PopupMessages \cup {TextThrows}

Phase1Label(key) == <<"Phase 1 receipt", ToString(key)>>

Phase1TimeoutMessage(contextLabel) ==
    <<"[">> \o contextLabel \o <<"]", "Timed out waiting for submit to complete">>

Phase3TimeoutMessage == <<"Timed out waiting for Phase 3 submit">>

\* faulty variant: no failure text counts as blocking
IsMatterBlockedNever(msg) == FALSE

\* faulty variant: every failure text counts as blocking
IsMatterBlockedAlways(msg) == TRUE

\* faulty variant: the bracketed timeout text counts as blocking
IsMatterBlockedTimeout(msg) ==
    Includes(msg, BlockingPhrase) \/ (Len(msg) > 0 /\ msg[1] = "[")

\* msg.includes('Matter does not allow payment activity. ...')
IsMatterBlocked(msg) == Includes(msg, BlockingPhrase)

\* let lastActionListCount = Infinity
Infinity == -1

\* faulty variant: an unchanged size is not a stall
CountGEStrict(count, last) == last # Infinity /\ count > last

\* count >= lastActionListCount, where nothing is >= Infinity
CountGE(count, last) == last # Infinity /\ count >= last

\* faulty variant: a list is never taken to be empty
IsEmptyNever(count) == FALSE

\* if (count === 0) break;
IsEmpty(count) == count = 0

\* faulty variant: a stalled drain is thrown as an error
AfterDrainStalledThrow == "aborted"

\* the stall's break leaves the for loop for the final verification
AfterDrainStalled == "p3_final"

\* faulty variant: one stall more is tolerated
maxConsecutiveStallsFour == 3 + 1

\* const maxConsecutiveStalls = 3
maxConsecutiveStalls == 3

\* faulty variant: off by one in the margin
MaxIterationsLoose(n) == n + 21

\* const maxIterations = receiptGroups.length + 20
MaxIterations(n) == n + 20

(* ------------------------- pure helper functions ----------------------- *)
RECURSIVE DedupLast(_)
\* faulty variant: the last occurrence of each value is the one kept
DedupLast(xs) ==
    IF xs = <<>> THEN <<>>
    ELSE LET rest == DedupLast(Tail(xs))
         IN IF \E i \in 1..Len(rest) : rest[i] = Head(xs) THEN rest
            ELSE <<Head(xs)>> \o rest

RECURSIVE Dedup(_)
\* [...new Set(xs)]: first occurrence of each value, in order
Dedup(xs) ==
    IF xs = <<>> THEN <<>>
    ELSE LET front == Dedup(SubSeq(xs, 1, Len(xs) - 1))
             x == xs[Len(xs)]
         IN IF \E i \in 1..Len(front) : front[i] = x THEN front
            ELSE Append(front, x)

RECURSIVE Flatten(_)
Flatten(ss) == IF ss = <<>> THEN <<>> ELSE Head(ss) \o Flatten(Tail(ss))

Min(a, b) == IF a < b THEN a ELSE b

RECURSIVE ChunkFromShort(_, _, _)
\* faulty variant: the slice ends one element early
ChunkFromShort(items, size, index) ==
    IF index >= Len(items) THEN <<>>
    ELSE <<SubSeq(items, index + 1, Min(index + size - 1, Len(items)))>>
         \o ChunkFromShort(items, size, index + size)

RECURSIVE ChunkFrom(_, _, _)
\* the for loop of chunkArray, from `index` on
ChunkFrom(items, size, index) ==
    IF index >= Len(items) THEN <<>>
    ELSE <<SubSeq(items, index + 1, Min(index + size, Len(items)))>>
         \o ChunkFrom(items, size, index + size)

\* chunkArray for size > 0 (size <= 0 throws, see Start)
ChunkArray(items, size) == ChunkFrom(items, size, 0)

Range(s) == { s[i] : i \in 1..Len(s) }

(* ------------------------------- inputs -------------------------------- *)
\* the invMasterIndices of a group: distinct values, insertion order
RefLists == { <<>>, <<1>> } \cup { <<r, 1>> : r \in 2..MaxRef }

\* what the action list reports in a drain, observation by observation;
\* past the end of the script (or without one) the count is any of
\* 0..pendingCap
PendingScripts == { <<>>, <<5, 5, 5, 5>> }

\* every list of 0..MaxUnits groups; the group at position k has key k
UnitLists == UNION { [1..n -> RefLists] : n \in 0..MaxUnits }

\* the lists whose groups all carry the one reference 1
PlainUnitLists == { [k \in 1..n |-> <<1>>] : n \in 0..MaxUnits }

(* ------------------------------- state --------------------------------- *)
VARIABLES
    fileExists,          \* fs.existsSync(filePath)
    receiptBatchSize,    \* config.receiptBatchSize
    receiptGroups,       \* groupByReceipt's result: invMasterIndices per key
    pendingScript,       \* what the action list will report in each drain
    pendingCap,          \* the most items the action list shows unscripted
    pc, error,           \* position of the control thread; the thrown error
    batches, batchIndex, \* chunkArray's result and the batch loop's index
    receiptPos,          \* units of the batch already handled by phase 1
    successfulReceipts,  \* keys for which processReceipt returned true
    submitResult,        \* waitForSubmitResult's return value
    waitSeen,            \* what the running wait has observed so far
    polls,               \* iterations of the running polling loop
    blackList,           \* the run's ledger file, entry by entry
    cancelled,           \* keys for which cancelCurrentRow was issued
    batchInvoiceIds,     \* batchInvMasterIndices of the current batch
    jobParams,           \* per batch: the parameter filled into the job
    jobTimedOut,         \* batches whose job poll passed its deadline
    jobEvents,           \* what the running triggerRunbook did, in order
    receiptQueue, submitted, maxIterations, iteration,
    lastActionListCount, consecutiveStalls, currentReceipt, phase3Result,
    count,               \* the drain's latest actionListItems.count()
    remainingCount,      \* the count read by the final verification
    drainExit,           \* why the drain's for loop ended
    p3Failures,          \* failed phase 3 submits so far in the run
    lastCall,            \* the latest external call: kind, batch, unit
    phaseStarted, phaseEnded,  \* per batch: phases entered / returned
    entries,             \* the parsed rows handed to the offline functions
    dpc,                 \* which offline function has run on the rows
    groups,              \* groupByReceipt's result for the rows
    partition,           \* splitData's result for the rows
    chunkItems, chunkSize,  \* the arguments of a call of chunkArray
    chunks,              \* what that call returned or threw
    fileLines,           \* the lines of the malformed-data file, as columns
    content,             \* the text of that file
    parsed,              \* parseMalformedData's result for those lines
    resources,           \* the resources directory: file name to lines
    scanned,             \* blackListFiles of the latest aggregation
    aggRuns,             \* aggregations run so far
    updReceipt,          \* the unit updateReceiptInvoices is called with
    rcptType,            \* the text of the item's ReceiptType field
    actionList,          \* the action list: the unit of each item, 0 for a leftover
    upc,                 \* position in updateReceiptInvoices and its caller
    attempt,             \* loop variable of openRemoveMenuAndClickRemoveAll
    lastError,           \* the error its latest failed attempt caught
    thrown,              \* the error that left updateReceiptInvoices
    invoiceIndex,        \* labels added so far
    uiEvents             \* what was done on the opened item, in order

inputVars == <<fileExists, receiptBatchSize, receiptGroups, pendingScript, pendingCap>>
loopVars == <<batches, batchIndex, receiptPos, successfulReceipts>>
waitVars == <<submitResult, waitSeen, polls>>
ledgerVars == <<blackList, cancelled>>
jobVars == <<batchInvoiceIds, jobParams, jobTimedOut, jobEvents>>
drainVars == <<receiptQueue, submitted, maxIterations, iteration,
               lastActionListCount, consecutiveStalls, currentReceipt,
               phase3Result, count, remainingCount, drainExit, p3Failures>>
phaseVars == <<phaseStarted, phaseEnded>>
chunkVars == <<chunkItems, chunkSize, chunks>>
parseVars == <<fileLines, content, parsed>>
aggVars == <<resources, scanned, aggRuns>>
updVars == <<updReceipt, rcptType, actionList, upc, attempt, lastError, thrown, invoiceIndex, uiEvents>>
dataVars == <<entries, dpc, groups, partition, chunkVars, parseVars, aggVars, updVars>>
vars == <<dataVars, inputVars, pc, error, loopVars, waitVars, ledgerVars, jobVars,
          drainVars, lastCall, phaseVars>>

NoResult == [success |-> FALSE, popupMessage |-> <<"no result">>]
NoCall == [kind |-> "none", batch |-> 0, unit |-> 0]
\* no job was started for the batch (0 is no invMasterIndex)
NoParam == <<0>>
BatchIds == 0..(MaxUnits - 1)
\* no error was caught or thrown
NoError == [attempt |-> 0, kind |-> "none"]
\* parseMalformedData was not called
NotParsed == [threw |-> "", result |-> <<>>]
\* chunkArray was not called
NoChunks == [threw |-> "", result |-> <<>>]
\* splitData has not run
NoPartition == [groupReceipts |-> <<>>, groupLines |-> <<>>, groupOutputs |-> <<>>]

\* no call of chunkArray, no file to parse, no directory to aggregate
ChunkIdle == chunkItems = <<>> /\ chunkSize = 0 /\ chunks = NoChunks
ParseIdle == fileLines = <<>> /\ content = <<>> /\ parsed = NotParsed
AggIdle == resources = <<>> /\ scanned = <<>> /\ aggRuns = 0
\* updateReceiptInvoices is not running
UpdIdle ==
    /\ updReceipt = <<>> /\ rcptType = <<>> /\ actionList = <<>> /\ upc = "idle" /\ attempt = 0 /\ lastError = NoError
    /\ thrown = NoError /\ invoiceIndex = 0 /\ uiEvents = <<>>

\* no offline function is run on rows of its own
DataIdle ==
    /\ entries = <<>> /\ dpc = "idle"
    /\ groups = <<>> /\ partition = NoPartition
    /\ ChunkIdle /\ ParseIdle /\ AggIdle /\ UpdIdle

\* the state of the test body before its first statement
InitRun ==
    /\ pc = "start" /\ error = "none"
    /\ batches = <<>> /\ batchIndex = 0
    /\ receiptPos = 0 /\ successfulReceipts = <<>>
    /\ submitResult = NoResult /\ waitSeen = {} /\ polls = 0
    /\ blackList = <<>> /\ cancelled = {}
    /\ batchInvoiceIds = <<>>
    /\ jobParams = [b \in BatchIds |-> NoParam]
    /\ jobTimedOut = {} /\ jobEvents = <<>>
    /\ receiptQueue = <<>> /\ submitted = 0 /\ maxIterations = 0
    /\ iteration = 0 /\ lastActionListCount = Infinity
    /\ consecutiveStalls = 0 /\ currentReceipt = 0
    /\ phase3Result = NoResult /\ drainExit = "none" /\ p3Failures = 0
    /\ count = 0 /\ remainingCount = 0
    /\ lastCall = NoCall
    /\ phaseStarted = [b \in BatchIds |-> {}]
    /\ phaseEnded = [b \in BatchIds |-> {}]

Init ==
    /\ fileExists \in BOOLEAN
    /\ receiptBatchSize \in 0..MaxBatchSize
    /\ \/ /\ receiptGroups \in UnitLists
          /\ pendingScript = <<>>
          /\ pendingCap = 0
       \/ /\ receiptGroups \in PlainUnitLists
          /\ pendingScript \in PendingScripts
          /\ pendingCap = MaxActionListCount
    /\ InitRun
    /\ DataIdle

\* an awaited call threw and nothing on the way up catches it
Abort(kind) == pc' = "aborted" /\ error' = kind

Batch == batches[batchIndex + 1]

\* the batch a unit was chunked into
BatchOf(key) == CHOOSE b \in 0..(Len(batches) - 1) : key \in Range(batches[b + 1])

Call(kind, batch, unit) == lastCall' = [kind |-> kind, batch |-> batch, unit |-> unit]

PhaseStart(p) == phaseStarted' = [phaseStarted EXCEPT ![batchIndex] = @ \cup {p}]
PhaseEnd(p) == phaseEnded' = [phaseEnded EXCEPT ![batchIndex] = @ \cup {p}]

(* ------------------------------ start-up ------------------------------- *)
\* faulty variant: login runs before the input is parsed and chunked
StartLoginFirst ==
    /\ pc = "start"
    /\ Call("login", 0, 0)
    /\ IF ~fileExists
         THEN Abort("Malformed data file not found") /\ UNCHANGED batches
       ELSE IF receiptBatchSize <= 0
         THEN Abort("Invalid batch size") /\ UNCHANGED batches
       ELSE /\ batches' = ChunkArray([k \in 1..Len(receiptGroups) |-> k], receiptBatchSize)
            /\ \/ pc' = "batch_loop" /\ error' = error
               \/ Abort("login failed")
    /\ UNCHANGED <<dataVars, inputVars, batchIndex, receiptPos, successfulReceipts, waitVars,
                   ledgerVars, jobVars, drainVars, phaseVars>>

\* parseMalformedData, groupByReceipt, chunkArray, login
Start ==
    /\ pc = "start"
    /\ IF ~fileExists
         THEN Abort("Malformed data file not found") /\ UNCHANGED <<batches, lastCall>>
       ELSE IF receiptBatchSize <= 0
         THEN Abort("Invalid batch size") /\ UNCHANGED <<batches, lastCall>>
       ELSE /\ batches' = ChunkArray([k \in 1..Len(receiptGroups) |-> k], receiptBatchSize)
            /\ Call("login", 0, 0)
            /\ \/ pc' = "batch_loop" /\ error' = error
               \/ Abort("login failed")
    /\ UNCHANGED <<dataVars, inputVars, batchIndex, receiptPos, successfulReceipts, waitVars,
                   ledgerVars, jobVars, drainVars, phaseVars>>

\* for (let batchIndex = 0; batchIndex < batches.length; ...)
BatchLoop ==
    /\ pc = "batch_loop"
    /\ IF batchIndex < Len(batches)
         THEN /\ pc' = "p1_loop"
              /\ successfulReceipts' = <<>>
              /\ receiptPos' = 0
              /\ PhaseStart(1)
         ELSE /\ pc' = "done"
              /\ UNCHANGED <<successfulReceipts, receiptPos, phaseStarted>>
    /\ UNCHANGED <<dataVars, inputVars, error, batches, batchIndex, waitVars, ledgerVars,
                   jobVars, drainVars, lastCall, phaseEnded>>

\* batchIndex++; the loop body's locals are gone
BatchNext ==
    /\ pc = "batch_next"
    /\ batchIndex' = batchIndex + 1
    /\ pc' = "batch_loop"
    /\ batchInvoiceIds' = <<>>
    /\ drainExit' = "none" /\ remainingCount' = 0
    /\ UNCHANGED <<dataVars, inputVars, error, batches, receiptPos, successfulReceipts, waitVars,
                   ledgerVars, jobParams, jobTimedOut, jobEvents, receiptQueue,
                   submitted,
                   maxIterations, iteration, lastActionListCount, consecutiveStalls,
                   currentReceipt, phase3Result, count, p3Failures, lastCall,
                   phaseVars>>

(* ------------------- phase 1: processReceipt per unit ------------------ *)
\* faulty variant: the drain is entered straight after phase 1
AfterPhase1Drain == "p3_enter"

\* where control goes when the phase 1 loop over the batch has finished
AfterPhase1 == "p2"

\* for (const receipt of batch); the previous call's locals are gone
P1Loop ==
    /\ pc = "p1_loop"
    /\ IF receiptPos < Len(Batch)
         THEN pc' = "p1_open" /\ UNCHANGED phaseEnded
         ELSE pc' = AfterPhase1 /\ PhaseEnd(1)
    /\ submitResult' = NoResult /\ waitSeen' = {} /\ polls' = 0
    /\ UNCHANGED <<dataVars, inputVars, error, loopVars, ledgerVars, jobVars,
                   drainVars, lastCall, phaseStarted>>

\* the unit processReceipt is working on
Receipt == Batch[receiptPos + 1]

\* navigate to the process page, quick-find the key, wait for the form
P1Open ==
    /\ pc = "p1_open"
    /\ Call("open", BatchOf(Receipt), Receipt)
    /\ \/ pc' = "p1_folder" /\ error' = error
       \/ Abort("open receipt failed")
    /\ UNCHANGED <<dataVars, inputVars, loopVars, waitVars, ledgerVars, jobVars,
                   drainVars, phaseVars>>

\* read type and date, Folder dialog, unit selection, the two checkboxes,
\* date and reason
P1Folder ==
    /\ pc = "p1_folder"
    /\ Call("folder", BatchOf(Receipt), Receipt)
    /\ \/ pc' = "p1_submit" /\ error' = error
       \/ Abort("folder dialog failed")
    /\ UNCHANGED <<dataVars, inputVars, loopVars, waitVars, ledgerVars, jobVars,
                   drainVars, phaseVars>>

\* clickSubmitAction: throws when no candidate button can be clicked
P1Submit ==
    /\ pc = "p1_submit"
    /\ Call("submit", BatchOf(Receipt), Receipt)
    /\ \/ pc' = "p1_wait" /\ error' = error
       \/ Abort("Unable to click Submit/Release button")
    /\ polls' = 0 /\ waitSeen' = {}
    /\ UNCHANGED <<dataVars, inputVars, loopVars, submitResult, ledgerVars, jobVars,
                   drainVars, phaseVars>>

\* what a read of the RcptIndex field gives; a throw is caught
IndexReads == {"<AUTO>", "5369791", "throws"}
\* snackbarLocator.isVisible(); a throw is caught
Visibility == {"visible", "hidden", "throws"}

\* faulty variant: the index is not read again once the snack bar was read
Phase1PollNoReread(idx1, vis, message, idx2) ==
    IF idx1 = "<AUTO>" THEN [success |-> TRUE, popupMessage |-> Undefined]
    ELSE IF vis = "visible" /\ message # TextThrows
      THEN [success |-> FALSE, popupMessage |-> message]
    ELSE NoResult

\* one pass through the body of waitForSubmitResult's while loop:
\* the value returned, or NoResult when the pass falls through to the delay
Phase1Poll(idx1, vis, message, idx2) ==
    IF idx1 = "<AUTO>" THEN [success |-> TRUE, popupMessage |-> Undefined]
    ELSE IF vis = "visible" /\ message # TextThrows
      THEN IF idx2 = "<AUTO>" THEN [success |-> TRUE, popupMessage |-> message]
           ELSE [success |-> FALSE, popupMessage |-> message]
    ELSE NoResult

\* faulty variant: a pass that finds nothing brings the deadline no nearer
P1WaitPollStuck ==
    /\ pc = "p1_wait"
    /\ polls < MaxSubmitPolls
    /\ \E idx1 \in IndexReads, vis \in Visibility, message \in PopupReads,
          idx2 \in IndexReads :
         LET r == Phase1Poll(idx1, vis, message, idx2) IN
         /\ waitSeen' = waitSeen
                \cup (IF idx1 = "<AUTO>" THEN {"sentinel"} ELSE {})
                \cup (IF idx1 # "<AUTO>" /\ vis = "visible" THEN {"popup"} ELSE {})
                \cup (IF idx1 # "<AUTO>" /\ vis = "visible" /\ message # TextThrows
                        THEN {IF idx2 = "<AUTO>" THEN "sentinel reread"
                              ELSE "other reread"}
                      ELSE {})
         /\ IF r = NoResult
              THEN polls' = polls /\ pc' = pc /\ UNCHANGED submitResult
              ELSE submitResult' = r /\ pc' = "p1_classify" /\ UNCHANGED polls
    /\ Call("poll", BatchOf(Receipt), Receipt)
    /\ UNCHANGED <<dataVars, inputVars, error, loopVars, ledgerVars, jobVars, drainVars, phaseVars>>

\* while (Date.now() < deadline) { ... await delay(1000) }
P1WaitPoll ==
    /\ pc = "p1_wait"
    /\ polls < MaxSubmitPolls
    /\ \E idx1 \in IndexReads, vis \in Visibility, message \in PopupReads,
          idx2 \in IndexReads :
         LET r == Phase1Poll(idx1, vis, message, idx2) IN
         /\ waitSeen' = waitSeen
                \cup (IF idx1 = "<AUTO>" THEN {"sentinel"} ELSE {})
                \cup (IF idx1 # "<AUTO>" /\ vis = "visible" THEN {"popup"} ELSE {})
                \cup (IF idx1 # "<AUTO>" /\ vis = "visible" /\ message # TextThrows
                        THEN {IF idx2 = "<AUTO>" THEN "sentinel reread"
                              ELSE "other reread"}
                      ELSE {})
         /\ IF r = NoResult
              THEN polls' = polls + 1 /\ pc' = pc /\ UNCHANGED submitResult
              ELSE submitResult' = r /\ pc' = "p1_classify" /\ UNCHANGED polls
    /\ Call("poll", BatchOf(Receipt), Receipt)
    /\ UNCHANGED <<dataVars, inputVars, error, loopVars, ledgerVars, jobVars, drainVars, phaseVars>>

\* the loop ended by its deadline
P1WaitTimeout ==
    /\ pc = "p1_wait"
    /\ polls >= MaxSubmitPolls
    /\ submitResult' = [success |-> FALSE,
                        popupMessage |-> Phase1TimeoutMessage(Phase1Label(Receipt))]
    /\ pc' = "p1_classify"
    /\ UNCHANGED <<dataVars, inputVars, error, loopVars, waitSeen, polls, ledgerVars, jobVars,
                   drainVars, lastCall, phaseVars>>

\* faulty variant: the file is written anew instead of appended to
AppendToBlackListOverwrite(list, key, popupMessage) ==
    <<[receipt |-> key, reason |-> popupMessage]>>

\* appendToBlackList(blackListPath, receipt, popupMessage)
AppendToBlackList(list, key, popupMessage) ==
    Append(list, [receipt |-> key, reason |-> popupMessage])

\* if (!submitResult.success) { ... }: dismissPopup, and for the blocking
\* message the ledger append, which comes before cancelCurrentRow
P1Classify ==
    /\ pc = "p1_classify"
    /\ LET msg == Coalesce(submitResult.popupMessage) IN
       IF ~submitResult.success /\ IsMatterBlocked(msg)
         THEN /\ blackList' = AppendToBlackList(blackList, Receipt, msg)
              /\ pc' = "p1_cancel"
              /\ Call("dismiss", BatchOf(Receipt), Receipt)
         ELSE /\ UNCHANGED blackList
              /\ pc' = "p1_return"
              /\ IF ~submitResult.success
                   THEN Call("dismiss", BatchOf(Receipt), Receipt)
                   ELSE UNCHANGED lastCall
    /\ UNCHANGED <<dataVars, inputVars, error, loopVars, waitVars, cancelled, jobVars,
                   drainVars, phaseVars>>

\* cancelCurrentRow: throws when Cancel or its confirmation never shows
P1Cancel ==
    /\ pc = "p1_cancel"
    /\ Call("cancel", BatchOf(Receipt), Receipt)
    /\ \/ /\ cancelled' = cancelled \cup {Receipt}
          /\ pc' = "p1_return" /\ error' = error
       \/ Abort("cancel button not visible") /\ UNCHANGED cancelled
    /\ UNCHANGED <<dataVars, inputVars, loopVars, waitVars, blackList, jobVars,
                   drainVars, phaseVars>>

\* faulty variant: a blocked unit is reported as a survivor too
SurvivedAlways(result) == TRUE

\* processReceipt's return value once the result is classified
Survived(result) == result.success \/ ~IsMatterBlocked(Coalesce(result.popupMessage))

\* navigate to the dashboard, return; the caller pushes a survivor
P1Return ==
    /\ pc = "p1_return"
    /\ Call("dashboard", BatchOf(Receipt), Receipt)
    /\ \/ /\ successfulReceipts' =
                 IF Survived(submitResult) THEN Append(successfulReceipts, Receipt)
                 ELSE successfulReceipts
          /\ receiptPos' = receiptPos + 1
          /\ pc' = "p1_loop" /\ error' = error
       \/ Abort("navigation failed") /\ UNCHANGED <<successfulReceipts, receiptPos>>
    /\ UNCHANGED <<dataVars, inputVars, batches, batchIndex, waitVars, ledgerVars, jobVars,
                   drainVars, phaseVars>>

(* ---------------------- phase 2: triggerRunbook ------------------------ *)
\* faulty variant: the references of every unit of the batch, blocked or not
BatchInvMasterIndicesOfBatch(successful) ==
    Dedup(Flatten([i \in 1..Len(Batch) |-> receiptGroups[Batch[i]]]))

\* [...new Set(successfulReceipts.flatMap(r => r.invMasterIndices))];
\* join(',') of the integers is kept as the list it joins
BatchInvMasterIndices(successful) ==
    Dedup(Flatten([i \in 1..Len(successful) |-> receiptGroups[successful[i]]]))

\* faulty variant: the next batch starts without this batch's drain
AfterPhase2Skip == "batch_next"

\* where control goes when triggerRunbook has returned or was skipped
AfterPhase2 == "p3_enter"

\* faulty variant: the job's timeout is written to the ledger
RunbookTimeoutLedgerEntry(list) ==
    Append(list, [receipt |-> 0, reason |-> <<"Runbook did not complete">>])

\* the deadline path of triggerRunbook only throws: the ledger, which the
\* function is not even handed, leaves it as it entered
RunbookTimeoutLedger(list) == list

\* faulty variant: the timeout is swallowed and the drain runs
OnRunbookTimeoutContinue == "p3_enter"

\* the throw at the end of triggerRunbook is caught nowhere
OnRunbookTimeout == "aborted"

\* faulty variant: the job is triggered with an empty parameter too
P2CollectAlways ==
    /\ pc = "p2"
    /\ batchInvoiceIds' = BatchInvMasterIndices(successfulReceipts)
    /\ pc' = "p2_start" /\ PhaseStart(2) /\ UNCHANGED phaseEnded
    /\ UNCHANGED <<dataVars, inputVars, error, loopVars, waitVars, ledgerVars, jobParams,
                   jobTimedOut, jobEvents, drainVars, lastCall>>

\* collect the parameter; skip the trigger when it is empty
P2Collect ==
    /\ pc = "p2"
    /\ batchInvoiceIds' = BatchInvMasterIndices(successfulReceipts)
    /\ IF Len(batchInvoiceIds') > 0
         THEN pc' = "p2_start" /\ PhaseStart(2) /\ UNCHANGED phaseEnded
         ELSE pc' = AfterPhase2 /\ PhaseEnd(2) /\ UNCHANGED phaseStarted
    /\ UNCHANGED <<dataVars, inputVars, error, loopVars, waitVars, ledgerVars, jobParams,
                   jobTimedOut, jobEvents, drainVars, lastCall>>

\* open the job surface, fill the parameter, Start
P2Start ==
    /\ pc = "p2_start"
    /\ Call("jobStart", batchIndex, 0)
    /\ \/ /\ jobParams' = [jobParams EXCEPT ![batchIndex] = batchInvoiceIds]
          /\ jobEvents' = <<"start">>
          /\ pc' = "p2_poll" /\ error' = error
       \/ Abort("job start failed") /\ UNCHANGED <<jobParams, jobEvents>>
    /\ polls' = 0
    /\ UNCHANGED <<dataVars, inputVars, loopVars, submitResult, waitSeen, ledgerVars,
                   batchInvoiceIds, jobTimedOut, drainVars, phaseVars>>

\* what the status element shows after a refresh; null when it is absent
JobStatus == {"Completed", "null"}

\* faulty variant: the status is read before the refresh and the delay
PollEventsReadFirst(statusText) == <<statusText, "refresh", "delay">>
\* one pass of the polling loop: click Refresh, delay, read the status
PollEvents(statusText) == <<"refresh", "delay", statusText>>

\* while (Date.now() < deadline) { Refresh; delay; read status }
P2Poll ==
    /\ pc = "p2_poll"
    /\ polls < MaxRunbookPolls
    /\ Call("refresh", batchIndex, 0)
    /\ \/ \E statusText \in JobStatus :
            /\ jobEvents' = jobEvents \o PollEvents(statusText)
            /\ IF statusText = "Completed"
                 THEN pc' = AfterPhase2 /\ PhaseEnd(2) /\ polls' = 0 /\ UNCHANGED error
                 ELSE pc' = pc /\ polls' = polls + 1 /\ UNCHANGED <<phaseEnded, error>>
       \/ Abort("refresh failed") /\ UNCHANGED <<polls, phaseEnded, jobEvents>>
    /\ UNCHANGED <<dataVars, inputVars, loopVars, submitResult, waitSeen, ledgerVars,
                   batchInvoiceIds, jobParams, jobTimedOut, drainVars, phaseStarted>>

\* throw new Error(`Runbook for ... did not complete within ...`)
P2Timeout ==
    /\ pc = "p2_poll"
    /\ polls >= MaxRunbookPolls
    /\ jobTimedOut' = jobTimedOut \cup {batchIndex}
    /\ pc' = OnRunbookTimeout
    /\ error' = "Runbook did not complete"
    /\ blackList' = RunbookTimeoutLedger(blackList)
    /\ UNCHANGED <<dataVars, inputVars, loopVars, waitVars, cancelled, batchInvoiceIds,
                   jobParams, jobEvents, drainVars, lastCall, phaseVars>>

(* -------------------- phase 3: submitOpenedReceipts -------------------- *)
\* the counts actionListItems.count() can return in iteration `iter`
ObservedCounts(iter) ==
    IF iter < Len(pendingScript) THEN {pendingScript[iter + 1]}
    ELSE 0..pendingCap

\* the sizes the final verification's count may report
FinalCounts == 0..pendingCap

\* bringToFront, dashboard, and the locals declared before the for loop
P3Enter ==
    /\ pc = "p3_enter"
    /\ Call("dashboard", batchIndex, 0)
    /\ PhaseStart(3)
    /\ jobEvents' = <<>>
    /\ \/ /\ receiptQueue' = successfulReceipts
          /\ submitted' = 0
          /\ maxIterations' = MaxIterations(Len(successfulReceipts))
          /\ lastActionListCount' = Infinity
          /\ consecutiveStalls' = 0
          /\ iteration' = 0
          /\ pc' = "p3_iter" /\ error' = error
       \/ /\ Abort("navigation failed")
          /\ UNCHANGED <<receiptQueue, submitted, maxIterations, lastActionListCount,
                         consecutiveStalls, iteration>>
    /\ UNCHANGED <<dataVars, inputVars, loopVars, waitVars, ledgerVars, batchInvoiceIds,
                   jobParams, jobTimedOut, currentReceipt,
                   phase3Result, count, remainingCount, drainExit, p3Failures,
                   phaseEnded>>

\* loop condition, fresh dashboard, count, empty check, stall detection
P3Iter ==
    /\ pc = "p3_iter"
    /\ IF iteration >= maxIterations
         THEN /\ drainExit' = "cap" /\ pc' = "p3_final"
              /\ UNCHANGED <<error, lastActionListCount, consecutiveStalls, lastCall,
                             count>>
         ELSE /\ Call("fetch", batchIndex, 0)
              /\ \/ /\ count' \in ObservedCounts(iteration)
                    /\ IF IsEmpty(count')
                         THEN /\ drainExit' = "empty" /\ pc' = "p3_final"
                              /\ UNCHANGED <<lastActionListCount, consecutiveStalls>>
                       ELSE IF CountGE(count', lastActionListCount)
                         THEN /\ consecutiveStalls' = consecutiveStalls + 1
                              /\ IF consecutiveStalls' >= maxConsecutiveStalls
                                   THEN /\ drainExit' = "stalled"
                                        /\ pc' = AfterDrainStalled
                                        /\ UNCHANGED lastActionListCount
                                   ELSE /\ lastActionListCount' = count'
                                        /\ pc' = "p3_open" /\ UNCHANGED drainExit
                       ELSE /\ consecutiveStalls' = 0
                            /\ lastActionListCount' = count'
                            /\ pc' = "p3_open" /\ UNCHANGED drainExit
                    /\ UNCHANGED error
                 \/ /\ iteration > 0
                    /\ Abort("navigation failed")
                    /\ UNCHANGED <<drainExit, lastActionListCount, consecutiveStalls,
                                   count>>
    /\ phase3Result' = NoResult
    /\ UNCHANGED <<dataVars, inputVars, loopVars, waitVars, ledgerVars, jobVars, receiptQueue,
                   submitted, maxIterations, iteration, currentReceipt,
                   remainingCount, p3Failures, phaseVars>>

\* faulty variant: the head is read but stays in the queue
ShiftKeep(queue) == queue

\* what receiptQueue.shift() leaves in the queue
Shift(queue) == Tail(queue)

\* click the last list item, wait for the form; shift the queue
P3Open ==
    /\ pc = "p3_open"
    /\ Call("openItem", batchIndex, 0)
    /\ \/ /\ IF Len(receiptQueue) > 0
               THEN /\ currentReceipt' = Head(receiptQueue)
                    /\ receiptQueue' = Shift(receiptQueue)
                    /\ pc' = "p3_update"
               ELSE /\ currentReceipt' = 0
                    /\ UNCHANGED receiptQueue
                    /\ pc' = "p3_submit"
          /\ error' = error
       \/ Abort("open item failed") /\ UNCHANGED <<currentReceipt, receiptQueue>>
    /\ UNCHANGED <<dataVars, inputVars, loopVars, waitVars, ledgerVars, jobVars, submitted,
                   maxIterations, iteration, lastActionListCount, consecutiveStalls,
                   phase3Result, count, remainingCount, drainExit, p3Failures,
                   phaseVars>>

\* updateReceiptInvoices: throws when remove-all fails on all attempts,
\* or when an add step fails
P3Update ==
    /\ pc = "p3_update"
    /\ Call("update", batchIndex, currentReceipt)
    /\ \/ pc' = "p3_submit" /\ error' = error
       \/ Abort("remove all failed")
    /\ UNCHANGED <<dataVars, inputVars, loopVars, waitVars, ledgerVars, jobVars, drainVars,
                   phaseVars>>

\* clickSubmitAction on the opened item
P3Submit ==
    /\ pc = "p3_submit"
    /\ Call("submit", batchIndex, currentReceipt)
    /\ \/ pc' = "p3_wait" /\ error' = error
       \/ Abort("Unable to click Submit/Release button")
    /\ polls' = 0
    /\ UNCHANGED <<dataVars, inputVars, loopVars, submitResult, waitSeen, ledgerVars, jobVars,
                   drainVars, phaseVars>>

\* one pass through the body of waitForPhase3SubmitResult's while loop
Phase3Poll(formVis, vis, message) ==
    IF formVis = "hidden" THEN [success |-> TRUE, popupMessage |-> Undefined]
    ELSE IF vis = "visible" /\ message # TextThrows
      THEN [success |-> FALSE, popupMessage |-> message]
    ELSE NoResult

P3WaitPoll ==
    /\ pc = "p3_wait"
    /\ polls < MaxSubmitPolls
    /\ Call("poll", batchIndex, currentReceipt)
    /\ \E formVis \in Visibility, vis \in Visibility, message \in PopupReads :
         LET r == Phase3Poll(formVis, vis, message) IN
         /\ r.success \/ p3Failures < MaxPhase3Failures
         /\ IF r = NoResult
              THEN polls' = polls + 1 /\ pc' = pc /\ UNCHANGED phase3Result
              ELSE phase3Result' = r /\ pc' = "p3_result" /\ polls' = 0
    /\ UNCHANGED <<dataVars, inputVars, error, loopVars, submitResult, waitSeen, ledgerVars,
                   jobVars, receiptQueue, submitted, maxIterations, iteration,
                   lastActionListCount, consecutiveStalls, currentReceipt, count,
                   remainingCount, drainExit, p3Failures, phaseVars>>

P3WaitTimeout ==
    /\ pc = "p3_wait"
    /\ polls >= MaxSubmitPolls
    /\ phase3Result' = [success |-> FALSE, popupMessage |-> Phase3TimeoutMessage]
    /\ pc' = "p3_result"
    /\ polls' = 0
    /\ UNCHANGED <<dataVars, inputVars, error, loopVars, submitResult, waitSeen, ledgerVars, jobVars,
                   receiptQueue, submitted, maxIterations, iteration,
                   lastActionListCount, consecutiveStalls, currentReceipt, count,
                   remainingCount, drainExit, p3Failures, lastCall, phaseVars>>

\* faulty variant: the failure branch falls through to submitted++
SubmittedAfterFallThrough(result, n) == n + 1

\* the failure branch ends in continue, so only a success reaches submitted++
SubmittedAfter(result, n) == IF result.success THEN n + 1 ELSE n

\* if (!phase3Result.success) { dismiss; ledger; dashboard; continue }
\* else { waitForLoadState; submitted++ }; then iteration++
P3Result ==
    /\ pc = "p3_result"
    /\ LET msg == Coalesce(phase3Result.popupMessage) IN
       IF ~phase3Result.success
         THEN /\ blackList' = IF IsMatterBlocked(msg)
                                THEN AppendToBlackList(blackList, currentReceipt, msg)
                                ELSE blackList
              /\ p3Failures' = p3Failures + 1
              /\ Call("dashboard", batchIndex, currentReceipt)
              /\ \/ /\ iteration' = iteration + 1
                    /\ pc' = "p3_iter" /\ error' = error
                 \/ Abort("navigation failed") /\ UNCHANGED iteration
              /\ submitted' = SubmittedAfter(phase3Result, submitted)
         ELSE /\ Call("loadState", batchIndex, currentReceipt)
              /\ \/ /\ submitted' = SubmittedAfter(phase3Result, submitted)
                    /\ iteration' = iteration + 1
                    /\ pc' = "p3_iter" /\ error' = error
                 \/ Abort("load state timeout") /\ UNCHANGED <<submitted, iteration>>
              /\ UNCHANGED <<blackList, p3Failures>>
    /\ UNCHANGED <<dataVars, inputVars, loopVars, waitVars, cancelled, jobVars, receiptQueue,
                   maxIterations, lastActionListCount, consecutiveStalls,
                   currentReceipt, phase3Result, count, remainingCount, drainExit,
                   phaseVars>>

\* final verification: dashboard, count, report; the function returns
P3Final ==
    /\ pc = "p3_final"
    /\ Call("finalFetch", batchIndex, 0)
    /\ \/ /\ remainingCount' \in FinalCounts
          /\ PhaseEnd(3)
          /\ pc' = "batch_next" /\ error' = error
          /\ receiptQueue' = <<>> /\ submitted' = 0 /\ maxIterations' = 0
          /\ iteration' = 0 /\ lastActionListCount' = Infinity
          /\ consecutiveStalls' = 0 /\ currentReceipt' = 0
          /\ phase3Result' = NoResult /\ count' = 0
       \/ /\ Abort("navigation failed")
          /\ UNCHANGED <<phaseEnded, receiptQueue, submitted, maxIterations, iteration,
                         lastActionListCount, consecutiveStalls, currentReceipt,
                         phase3Result, count, remainingCount>>
    /\ UNCHANGED <<dataVars, inputVars, loopVars, waitVars, ledgerVars, jobVars, drainExit,
                   p3Failures, phaseStarted>>

(* --------------------------- specification ----------------------------- *)
Next ==
    \/ Start \/ BatchLoop \/ BatchNext
    \/ P1Loop \/ P1Open \/ P1Folder \/ P1Submit \/ P1WaitPoll \/ P1WaitTimeout
    \/ P1Classify \/ P1Cancel \/ P1Return
    \/ P2Collect \/ P2Start \/ P2Poll \/ P2Timeout
    \/ P3Enter \/ P3Iter \/ P3Open \/ P3Update \/ P3Submit \/ P3WaitPoll
    \/ P3WaitTimeout \/ P3Result \/ P3Final

Spec == Init /\ [][Next]_vars

(* ------------------- offline functions on parsed rows ------------------ *)
\* the values of cols[17] after trim and toUpperCase that occur in the rows
Statuses == {"CORRUPTED", "FIXED"}

\* the fields of a row that grouping and splitting read
Rows ==
    [rcptMasterIndex : 1..MaxKey, invMasterIndex : 1..MaxRef, status : Statuses,
     invNumber : {"A"}]

\* invoice numbers, column 2
InvNumbers == {"A", "B"}
\* rows that differ in their receipt and invoice number only
LabelRows ==
    [rcptMasterIndex : 1..MaxKey, invMasterIndex : {1}, status : {"CORRUPTED"},
     invNumber : InvNumbers]

\* a MalformedEntry: the row's fields and, as rawLine, its position in the file
EntryAt(row, i) ==
    [rcptMasterIndex |-> row.rcptMasterIndex, invMasterIndex |-> row.invMasterIndex,
     invNumber |-> row.invNumber, status |-> row.status, rawLine |-> i]

\* lines.map(...): one entry per row, in file order
EntryList(rows) == [i \in 1..Len(rows) |-> EntryAt(rows[i], i)]

\* xs.map(f) for a field: the sequence of one field's values
InvMasterIndexOf(es) == [i \in 1..Len(es) |-> es[i].invMasterIndex]
InvNumberOf(es) == [i \in 1..Len(es) |-> es[i].invNumber]
RcptMasterIndexOf(es) == [i \in 1..Len(es) |-> es[i].rcptMasterIndex]
RawLineOf(es) == [i \in 1..Len(es) |-> es[i].rawLine]

\* faulty variant: rows of every status count
IsCorruptedAny(e) == TRUE

\* e => e.status === 'CORRUPTED'
IsCorrupted(e) == e.status = "CORRUPTED"

\* groupByReceipt: a Map keyed by rcptMasterIndex keeps its keys in the
\* order of their first row; one ReceiptGroup per key
GroupByReceipt(es) ==
    LET keys == Dedup(RcptMasterIndexOf(es)) IN
    [k \in 1..Len(keys) |->
        LET groupEntries == SelectSeq(es, LAMBDA e : e.rcptMasterIndex = keys[k]) IN
        [rcptMasterIndex |-> keys[k],
         entries |-> groupEntries,
         invNumbers |-> Dedup(InvNumberOf(groupEntries)),
         invMasterIndices |->
             Dedup(InvMasterIndexOf(SelectSeq(groupEntries, IsCorrupted))),
         rawLines |-> RawLineOf(groupEntries)]]

\* rows as splitData reads them: columns 1 and 4 only, so that the status
\* column is left at its default
SplitRows == { row \in Rows : row.status = "CORRUPTED" }

(* ------------------------- parseMalformedData -------------------------- *)
\* a text is a sequence of one-character strings
TAB == "\t"
LF == "\n"
CR == "\r"
IsSpace(c) == c \in {" ", TAB, LF, CR}
Digits == <<"0", "1", "2", "3", "4", "5", "6", "7", "8", "9">>
IsDigit(c) == \E d \in 1..10 : Digits[d] = c
DigitValue(c) == (CHOOSE d \in 1..10 : Digits[d] = c) - 1
\* the letters of the texts the model reads, and their upper-case forms
Lowers == <<"c", "o", "r", "u", "p", "t", "e", "d", "k">>
Uppers == <<"C", "O", "R", "U", "P", "T", "E", "D", "K">>

\* String.prototype.toUpperCase
UpperChar(c) ==
    IF \E i \in 1..Len(Lowers) : Lowers[i] = c
      THEN Uppers[CHOOSE i \in 1..Len(Lowers) : Lowers[i] = c]
      ELSE c
\* faulty variant: the text is left in the case it was written in
ToUpperCaseKeep(s) == s
ToUpperCase(s) == [i \in 1..Len(s) |-> UpperChar(s[i])]

RECURSIVE TrimStart(_)
TrimStart(s) == IF s # <<>> /\ IsSpace(Head(s)) THEN TrimStart(Tail(s)) ELSE s
RECURSIVE TrimEnd(_)
TrimEnd(s) ==
    IF s # <<>> /\ IsSpace(s[Len(s)]) THEN TrimEnd(SubSeq(s, 1, Len(s) - 1)) ELSE s
\* String.prototype.trim
Trim(s) == TrimEnd(TrimStart(s))

\* String.prototype.split on one character
RECURSIVE SplitOn(_, _)
SplitOn(s, c) ==
    IF \E i \in 1..Len(s) : s[i] = c
      THEN LET i == CHOOSE j \in 1..Len(s) :
                       s[j] = c /\ \A k \in 1..(j - 1) : s[k] # c
           IN <<SubSeq(s, 1, i - 1)>> \o SplitOn(SubSeq(s, i + 1, Len(s)), c)
      ELSE <<s>>

\* content.split(/\r?\n/): a CR right before the LF belongs to the separator
SplitLines(s) ==
    LET pieces == SplitOn(s, LF)
    IN [i \in 1..Len(pieces) |->
          IF i < Len(pieces) /\ pieces[i] # <<>> /\ pieces[i][Len(pieces[i])] = CR
            THEN SubSeq(pieces[i], 1, Len(pieces[i]) - 1)
            ELSE pieces[i]]

\* the longest run of digits a text starts with
RECURSIVE DigitPrefix(_)
DigitPrefix(s) ==
    IF s # <<>> /\ IsDigit(Head(s)) THEN <<Head(s)>> \o DigitPrefix(Tail(s)) ELSE <<>>
\* the number a run of digits writes in base 10
RECURSIVE DecimalValue(_)
DecimalValue(ds) ==
    IF ds = <<>> THEN 0
    ELSE 10 * DecimalValue(SubSeq(ds, 1, Len(ds) - 1)) + DigitValue(ds[Len(ds)])
NaN == "NaN"
\* parseInt(s, 10): leading white space and a sign are skipped, the digits
\* up to the first other character are read, NaN when there is none
ParseInt(s) ==
    LET t == TrimStart(s)
        negative == t # <<>> /\ Head(t) = "-"
        body == IF t # <<>> /\ Head(t) \in {"-", "+"} THEN Tail(t) ELSE t
        ds == DigitPrefix(body)
    IN IF ds = <<>> THEN NaN
       ELSE IF negative THEN 0 - DecimalValue(ds) ELSE DecimalValue(ds)

\* the text 'CORRUPTED'
CorruptedText == <<"C", "O", "R", "R", "U", "P", "T", "E", "D">>
\* columns 0..16 are read with .trim(): a line with fewer of them throws
MinColumns == 17

\* the entry of one non-blank line (difference, a float no later step
\* reads, is left out)
ParseLine(line) ==
    LET cols == SplitOn(line, TAB)
    IN [armIndex |-> ParseInt(Trim(cols[1])),
        invMasterIndex |-> ParseInt(Trim(cols[2])),
        invNumber |-> Trim(cols[3]),
        rcptMasterIndex |-> ParseInt(Trim(cols[5])),
        status |-> ToUpperCase(Trim(IF Len(cols) >= 18 THEN cols[18]
                                    ELSE CorruptedText)),
        rawLine |-> line]

\* lines = content.split(/\r?\n/).filter(line => line.trim().length > 0)
NonBlankLines(text) == SelectSeq(SplitLines(text), LAMBDA line : Trim(line) # <<>>)

\* parseMalformedData on a file that exists: the entries, or the TypeError
\* of reading a column the line does not have
ParseMalformedData(text) ==
    LET lines == NonBlankLines(text)
    IN IF \E i \in 1..Len(lines) : Len(SplitOn(lines[i], TAB)) < MinColumns
         THEN [threw |-> "TypeError", result |-> <<>>]
         ELSE [threw |-> "", result |-> [i \in 1..Len(lines) |-> ParseLine(lines[i])]]

RECURSIVE JoinWith(_, _)
\* the pieces written one after the other with sep between them
JoinWith(pieces, sep) ==
    IF pieces = <<>> THEN <<>>
    ELSE IF Len(pieces) = 1 THEN pieces[1]
    ELSE pieces[1] \o sep \o JoinWith(Tail(pieces), sep)

\* a line of the file as its columns, column 4 and the status column given
ColumnsOf(col4, trailing) ==
    <<<<"7">>, <<"1">>, <<" ", "A">>, <<"m">>, col4>>
    \o [i \in 1..11 |-> <<"x">>] \o <<<<"0">>>> \o trailing
\* no status column, an empty one, one to trim and upper-case, 'corrupted'
WellFormedChoices ==
    {ColumnsOf(<<"1">>, <<>>),
     ColumnsOf(<<"1">>, <<<<>>>>),
     ColumnsOf(<<" ", "2", "1">>, <<<<" ", "o", "k", " ">>>>),
     ColumnsOf(<<"0", "2", " ">>,
               <<<<"c", "o", "r", "r", "u", "p", "t", "e", "d">>>>)}
\* lines of white space only, and a line that stops after column 1
BlankLineChoices == {<<<<>>>>, <<<<>>, <<" ">>>>}
ShortLineChoices == {<<<<"7">>, <<"1">>>>}
\* the lines of the files the parser is run on, each as its columns
LineChoices == WellFormedChoices \cup BlankLineChoices \cup ShortLineChoices
\* the text of a file: columns joined by TAB, lines ended or separated by eol
FileText(lineCols, eol, final) ==
    JoinWith([i \in 1..Len(lineCols) |-> JoinWith(lineCols[i], <<TAB>>)], eol)
    \o (IF final THEN eol ELSE <<>>)
LineEndings == {<<LF>>, <<CR, LF>>}

(* --------------------- the ledger aggregation script ------------------- *)
\* file names, as the pieces the script's filter tells apart
BlackListName == <<"blackList">>
BlackListRunName == <<"blackList", "_", "2">>
OtherName == <<"blackList", "Old">>
OutputName == <<"allBlacklistedReceipts.txt">>
\* fs.readdirSync lists the names that exist, in this order
NameOrder == <<OutputName, BlackListName, OtherName, BlackListRunName>>

HeaderPrefix == <<"#", " ", "R", "e", "c", "e", "i", "p", "t", " ">>
Key1 == <<"1", "0", "0", "0", "1">>
Key2 == <<"1", "0", "0", "0", "2">>
\* a raw data line whose column 4 is the given text
RawLine(col4) == JoinWith(<<<<"7">>, <<"1">>, <<"A">>, <<"m">>, col4, <<"x">>>>, <<TAB>>)
\* the lines ledger files are written from: a header of the new format, a
\* legacy line, raw lines (column 4 plain and written with a leading zero),
\* a legacy line with a number too short, a number-prefixed data line, a
\* comment, a data line that stops before column 4
LedgerLineChoices ==
    {HeaderPrefix \o Key2 \o <<" ", "x">>,
     Key1 \o <<" ", "m">>,
     RawLine(Key1),
     RawLine(<<"0">> \o Key1),
     <<"1", "0", "0", "1", " ", "m">>,
     Key2 \o <<" ", "m", TAB, "1", TAB, "A", TAB, "m", TAB>> \o Key1,
     <<"#">>,
     <<"7", TAB, "1">>}

\* the resources directory: the first `cut` lines make up blackList, the
\* rest blackList_2; a file the filter must skip; a stale output or none
Directory(lines, cut, stale) ==
    LET text(ls) == JoinWith(ls, <<LF>>) \o <<LF>>
        ledgers == (BlackListName :> text(SubSeq(lines, 1, cut)))
                   @@ (BlackListRunName :> text(SubSeq(lines, cut + 1, Len(lines))))
                   @@ (OtherName :> text(<<RawLine(<<"9", "9">>)>>))
    IN IF stale THEN ledgers @@ (OutputName :> text(<<<<"9", "9">>>>)) ELSE ledgers

\* column 4 of the lines of the units a run records: plain, with white
\* space, with a leading zero, negative, with text after the digits
KeyColumns ==
    { <<"1", "2">>, <<"7">>, <<" ", "7">>, <<"0", "1", "2">>, <<"-", "5">>, <<"5", "x">> }
\* popup messages as characters: the blocking phrase (M), alone and after a
\* number; "--" stands for the dash the headers are written with
LedgerMessages == { <<"M">>, Key1 \o <<" ", "M">> }

\* the entry parsed from a line, its status as the tag the grouping reads
EntryOfLine(line) ==
    [ParseLine(line) EXCEPT !.status = IF @ = CorruptedText THEN "CORRUPTED" ELSE "OK"]

\* texts the ReceiptType field can show
TypeLabels ==
    { <<"9", "1", "0", "0", "-", "A">>, <<"9", "1", "0", "0">>,
      <<" ", "9", "1", "0", "0", " ", "-", "A">>, <<"9", "2", "0", "0", "-", "A">>,
      <<"9", "1", "0", "0", "A", "-", "B">>, <<"-", "9", "1", "0", "0">>,
      <<"9", "2", "0", "0", "-", "9", "1", "0", "0">>, <<>> }

\* the rows of one unit, differing in their invoice number
OneUnitRows == { row \in LabelRows : row.rcptMasterIndex = 1 }

\* the lengths and sizes chunkArray is called with; 45 and 20 are the
\* documented example
ChunkLengths == 0..MaxItems \cup {45}
ChunkSizes == -1..MaxBatchSize \cup {20}

\* a call of chunkArray: the thrown error, or the chunks returned
ChunkArrayCall(items, size) ==
    IF size <= 0
      THEN [threw |-> "Invalid batch size", result |-> <<>>]
      ELSE [threw |-> "", result |-> ChunkArray(items, size)]

\* the rows the offline functions are run on: parsed entries for the
\* grouper, file lines for the partitioner
InitData ==
    /\ \/ /\ groups = <<>>
          /\ \E n \in 0..MaxEntries :
                \/ \E rows \in [1..n -> Rows] :
                      entries = EntryList(rows) /\ dpc = "input"
                \/ \E rows \in [1..n -> LabelRows] :
                      entries = EntryList(rows) /\ dpc = "input"
                \/ \E rows \in [1..n -> SplitRows] :
                      entries = EntryList(rows) /\ dpc = "lines"
          /\ ChunkIdle /\ ParseIdle /\ AggIdle /\ UpdIdle
       \/ /\ groups = <<>>
          /\ \E n \in ChunkLengths : chunkItems = [i \in 1..n |-> i]
          /\ chunkSize \in ChunkSizes
          /\ chunks = NoChunks /\ dpc = "items"
          /\ entries = <<>> /\ ParseIdle /\ AggIdle /\ UpdIdle
       \/ /\ groups = <<>>
          /\ \E n \in 0..MaxFileLines : \E ls \in [1..n -> LineChoices] :
                /\ fileLines = ls
                /\ \E eol \in LineEndings, final \in BOOLEAN :
                      content = FileText(ls, eol, final)
          /\ parsed = NotParsed /\ dpc = "file"
          /\ entries = <<>> /\ ChunkIdle /\ AggIdle /\ UpdIdle
       \/ /\ groups = <<>>
          /\ \E n \in 0..MaxLedgerLines : \E ls \in [1..n -> LedgerLineChoices] :
                \E cut \in 0..n, stale \in BOOLEAN :
                   resources = Directory(ls, cut, stale)
          /\ scanned = <<>> /\ aggRuns = 0 /\ dpc = "ledgers"
          /\ entries = <<>> /\ ChunkIdle /\ ParseIdle /\ UpdIdle
       \/ /\ groups = <<>>
          /\ \E n \in 1..MaxEntries : \E rows \in [1..n -> OneUnitRows] :
                updReceipt = GroupByReceipt(EntryList(rows))[1]
          /\ upc = "start" /\ attempt = 0 /\ lastError = NoError /\ thrown = NoError
          /\ invoiceIndex = 0 /\ uiEvents = <<>> /\ dpc = "update" /\ rcptType = <<>>
          /\ actionList = <<>>
          /\ entries = <<>> /\ ChunkIdle /\ ParseIdle /\ AggIdle
       \/ /\ groups = <<>>
          /\ rcptType \in TypeLabels /\ updReceipt = <<>>
          /\ upc = "start" /\ attempt = 0 /\ lastError = NoError /\ thrown = NoError
          /\ invoiceIndex = 0 /\ uiEvents = <<>> /\ dpc = "folder"
          /\ actionList = <<>>
          /\ entries = <<>> /\ ChunkIdle /\ ParseIdle /\ AggIdle
       \/ /\ groups = <<>>
          /\ \E n \in 1..MaxUnits, carryOver \in 0..MaxCarryOver :
                actionList = [i \in 1..n |-> n + 1 - i] \o [i \in 1..carryOver |-> 0]
          /\ rcptType = <<>> /\ updReceipt = <<>>
          /\ upc = "enter" /\ attempt = 0 /\ lastError = NoError /\ thrown = NoError
          /\ invoiceIndex = 0 /\ uiEvents = <<>> /\ dpc = "drain"
          /\ entries = <<>> /\ ChunkIdle /\ ParseIdle /\ AggIdle
       \/ /\ \E n \in 1..MaxRecordLines : \E cols \in [1..n -> KeyColumns] :
                /\ entries = [i \in 1..n |->
                                EntryOfLine(JoinWith(ColumnsOf(cols[i], <<>>), <<TAB>>))]
                /\ groups = GroupByReceipt(entries)
          /\ resources = <<>> /\ scanned = <<>> /\ aggRuns = 0 /\ dpc = "recording"
          /\ ChunkIdle /\ ParseIdle /\ UpdIdle
    /\ partition = NoPartition
    /\ fileExists = FALSE /\ receiptBatchSize = 0 /\ receiptGroups = <<>>
    /\ pendingScript = <<>> /\ pendingCap = 0
    /\ InitRun

runVars == <<inputVars, pc, error, loopVars, waitVars, ledgerVars, jobVars,
             drainVars, lastCall, phaseVars>>

\* const receiptGroups = groupByReceipt(entries)
DataGroup ==
    /\ dpc = "input"
    /\ groups' = GroupByReceipt(entries)
    /\ dpc' = "grouped"
    /\ UNCHANGED <<entries, partition, chunkVars, parseVars, aggVars, updVars, runVars>>

(* ----------------------- splitData: the partitioner -------------------- *)
\* rcptIds: the keys of rcptMap, in the order of their first row
RcptIds(rows) == Dedup(RcptMasterIndexOf(rows))

RowsOf(rows, r) == SelectSeq(rows, LAMBDA e : e.rcptMasterIndex = r)

\* rcptMap.get(r).invMasters: a Set, kept in insertion order
InvMastersOf(rows, r) == Dedup(InvMasterIndexOf(RowsOf(rows, r)))

\* rcptMap.get(r).lines.length
LineCountOf(rows, r) == Len(RowsOf(rows, r))

\* the keys of invToReceipts in insertion order
InvKeys(rows) ==
    LET ids == RcptIds(rows) IN
    Dedup(Flatten([k \in 1..Len(ids) |-> InvMastersOf(rows, ids[k])]))

\* invToReceipts.get(inv): the receipts using inv, in rcptMap order
ReceiptsOfInv(rows, inv) ==
    SelectSeq(RcptIds(rows), LAMBDA r : inv \in Range(InvMastersOf(rows, r)))

\* faulty variant: receipts sharing an invoice are not united
UnionPairsNone(rows) == <<>>

\* the calls union(receipts[0], receipts[i]) in the order they are made
UnionPairs(rows) ==
    LET invs == InvKeys(rows) IN
    Flatten([k \in 1..Len(invs) |->
        LET receipts == ReceiptsOfInv(rows, invs[k]) IN
        [i \in 1..(Len(receipts) - 1) |-> <<receipts[1], receipts[i + 1]>>]])

RECURSIVE Find(_, _)
\* the value find(x) returns: the root of x
Find(parent, x) == IF parent[x] = x THEN x ELSE Find(parent, parent[x])

RECURSIVE PathOf(_, _)
PathOf(parent, x) ==
    IF parent[x] = x THEN {x} ELSE {x} \cup PathOf(parent, parent[x])

\* the side effect of find(x): every node on the way up points to the root
Compress(parent, x) ==
    [y \in DOMAIN parent |->
        IF y \in PathOf(parent, x) THEN Find(parent, x) ELSE parent[y]]

\* parent and rank as find's lazy initialisation leaves them
InitialUF(ids) ==
    [parent |-> [x \in Range(ids) |-> x], rank |-> [x \in Range(ids) |-> 0]]

\* union(a, b): by rank, the first root winning a tie
Union(uf, a, b) ==
    LET p1 == Compress(uf.parent, a)
        ra == Find(p1, a)
        p2 == Compress(p1, b)
        rb == Find(p2, b)
    IN IF ra = rb THEN [parent |-> p2, rank |-> uf.rank]
       ELSE IF uf.rank[ra] < uf.rank[rb]
         THEN [parent |-> [p2 EXCEPT ![ra] = rb], rank |-> uf.rank]
       ELSE IF uf.rank[ra] > uf.rank[rb]
         THEN [parent |-> [p2 EXCEPT ![rb] = ra], rank |-> uf.rank]
       ELSE [parent |-> [p2 EXCEPT ![rb] = ra],
             rank |-> [uf.rank EXCEPT ![ra] = @ + 1]]

RECURSIVE UnionAll(_, _)
UnionAll(uf, pairs) ==
    IF pairs = <<>> THEN uf
    ELSE UnionAll(Union(uf, Head(pairs)[1], Head(pairs)[2]), Tail(pairs))

\* components: a Map from root to its receipts, filled in rcptIds order
Components(rows) ==
    LET ids == RcptIds(rows)
        uf == UnionAll(InitialUF(ids), UnionPairs(rows))
        roots == Dedup([i \in 1..Len(ids) |-> Find(uf.parent, ids[i])])
    IN [c \in 1..Len(roots) |->
           SelectSeq(ids, LAMBDA r : Find(uf.parent, r) = roots[c])]

RECURSIVE SortByKey(_)
\* Array.prototype.sort by an ascending numeric key; the sort is stable
SortByKey(xs) ==
    IF xs = <<>> THEN <<>>
    ELSE LET front == SortByKey(SubSeq(xs, 1, Len(xs) - 1))
             last == xs[Len(xs)]
         IN SelectSeq(front, LAMBDA x : x.key <= last.key)
            \o <<last>>
            \o SelectSeq(front, LAMBDA x : x.key > last.key)

\* comp.sort((a, b) => a - b)
SortAscending(ns) ==
    LET sorted == SortByKey([i \in 1..Len(ns) |-> [key |-> ns[i]]])
    IN [i \in 1..Len(ns) |-> sorted[i].key]

RECURSIVE Sum(_)
Sum(ns) == IF ns = <<>> THEN 0 ELSE Head(ns) + Sum(Tail(ns))

\* sortedComponents: by smallest receipt id; then compWithSize, sorted by
\* line count descending
CompWithSize(rows) ==
    LET comps == Components(rows)
        sortedComponents ==
            SortByKey([c \in 1..Len(comps) |->
                [key |-> SortAscending(comps[c])[1], receipts |-> comps[c]]])
        sized ==
            [c \in 1..Len(comps) |->
                LET lineCount ==
                        Sum([i \in 1..Len(sortedComponents[c].receipts) |->
                                LineCountOf(rows, sortedComponents[c].receipts[i])])
                IN [key |-> 0 - lineCount,
                    receipts |-> SortAscending(sortedComponents[c].receipts),
                    lineCount |-> lineCount]]
    IN SortByKey(sized)

\* const NUM_GROUPS = 3
NUM_GROUPS == 3

\* faulty variant: the first group is taken whatever the loads are
MinIdxFirst(groupLines) == 1

\* the group with the fewest lines, the first one of several
MinIdx(groupLines) ==
    CHOOSE i \in 1..Len(groupLines) :
        /\ \A j \in 1..Len(groupLines) : groupLines[i] <= groupLines[j]
        /\ \A j \in 1..(i - 1) : groupLines[j] > groupLines[i]

\* one pass of the assignment loop into the group numbered m
AssignTo(bins, comp, m) ==
    [groupReceipts |-> [bins.groupReceipts EXCEPT ![m] = @ \cup Range(comp.receipts)],
     groupLines |-> [bins.groupLines EXCEPT ![m] = @ + comp.lineCount]]

RECURSIVE Assign(_, _)
\* for (const comp of compWithSize): into the group of MinIdx
Assign(bins, comps) ==
    IF comps = <<>> THEN bins
    ELSE Assign(AssignTo(bins, Head(comps), MinIdx(bins.groupLines)), Tail(comps))

RECURSIVE AssignTwo(_, _)
\* the two-group variant: if (group1Lines <= group2Lines) group 1 else group 2
AssignTwo(bins, comps) ==
    IF comps = <<>> THEN bins
    ELSE AssignTwo(AssignTo(bins, Head(comps),
                            IF bins.groupLines[1] <= bins.groupLines[2] THEN 1 ELSE 2),
                   Tail(comps))

EmptyBins(k) == [groupReceipts |-> [i \in 1..k |-> {}], groupLines |-> [i \in 1..k |-> 0]]

\* faulty variant: the lines are written receipt by receipt
GroupOutputsByReceipt(rows, groupReceipts) ==
    [i \in 1..Len(groupReceipts) |->
        LET ids == SelectSeq(RcptIds(rows), LAMBDA r : r \in groupReceipts[i])
        IN Flatten([k \in 1..Len(ids) |-> RawLineOf(RowsOf(rows, ids[k]))])]

\* the lines written per group: file order, a line going to the first
\* group that has its receipt
GroupOutputs(rows, groupReceipts) ==
    [i \in 1..Len(groupReceipts) |->
        RawLineOf(SelectSeq(rows, LAMBDA e :
            /\ e.rcptMasterIndex \in groupReceipts[i]
            /\ \A j \in 1..(i - 1) : e.rcptMasterIndex \notin groupReceipts[j]))]

WithOutputs(rows, bins) ==
    [groupReceipts |-> bins.groupReceipts, groupLines |-> bins.groupLines,
     groupOutputs |-> GroupOutputs(rows, bins.groupReceipts)]

\* the script with NUM_GROUPS groups
SplitData(rows) == WithOutputs(rows, Assign(EmptyBins(NUM_GROUPS), CompWithSize(rows)))

\* the script with two groups
SplitDataTwo(rows) == WithOutputs(rows, AssignTwo(EmptyBins(2), CompWithSize(rows)))

DataSplit ==
    /\ dpc = "lines"
    /\ partition' = SplitData(entries)
    /\ dpc' = "split"
    /\ UNCHANGED <<entries, groups, chunkVars, parseVars, aggVars, updVars, runVars>>

DataSplitTwo ==
    /\ dpc = "lines"
    /\ partition' = SplitDataTwo(entries)
    /\ dpc' = "splitTwo"
    /\ UNCHANGED <<entries, groups, chunkVars, parseVars, aggVars, updVars, runVars>>

\* faulty variant: every file of the directory is scanned
IsLedgerFileAny(name) == TRUE
\* files.filter(f => f === 'blackList' || f.startsWith('blackList_'))
IsLedgerFile(name) ==
    \/ name = BlackListName
    \/ Len(name) >= 2 /\ name[1] = "blackList" /\ name[2] = "_"

\* fs.readdirSync(resourcesDir)
Readdir(dir) == SelectSeq(NameOrder, LAMBDA name : name \in DOMAIN dir)

StartsWith(s, p) == Len(s) >= Len(p) /\ SubSeq(s, 1, Len(p)) = p
AllDigits(s) == s # <<>> /\ \A i \in 1..Len(s) : IsDigit(s[i])

\* line.match(/^# Receipt (\d+)/): the captured digits, <<>> without a match
HeaderMatch(line) ==
    IF StartsWith(line, HeaderPrefix)
      THEN DigitPrefix(SubSeq(line, Len(HeaderPrefix) + 1, Len(line)))
      ELSE <<>>

\* line.match(/^(\d{5,}) .+/): the captured digits, <<>> without a match
OldFormatMatch(line) ==
    LET ds == DigitPrefix(line)
    IN IF Len(ds) >= 5 /\ Len(line) >= Len(ds) + 2 /\ line[Len(ds) + 1] = " "
         THEN ds ELSE <<>>

\* column 4 of a data line, when there are five columns and it is all digits
Column4Key(line) ==
    LET cols == SplitOn(line, TAB)
    IN IF Len(cols) >= 5 /\ AllDigits(cols[5]) THEN <<cols[5]>> ELSE <<>>

HasTab(line) == \E i \in 1..Len(line) : line[i] = TAB

\* the body of the loop over lines: the keys added to receiptSet, in order
KeysOfLine(line) ==
    IF HeaderMatch(line) # <<>> THEN <<HeaderMatch(line)>>
    ELSE IF OldFormatMatch(line) # <<>>
      THEN IF HasTab(line) THEN Column4Key(line) ELSE <<OldFormatMatch(line)>>
    ELSE IF HasTab(line) THEN Column4Key(line)
    ELSE <<>>

\* receiptSet after the loop over files: a Set of strings in insertion order
ReceiptSet(dir, files) ==
    Dedup(Flatten([f \in 1..Len(files) |->
        LET lines == SplitLines(dir[files[f]])
        IN Flatten([l \in 1..Len(lines) |-> KeysOfLine(lines[l])])]))

\* [...receiptSet].sort((a, b) => Number(a) - Number(b))
SortedKeys(keys) ==
    LET sorted == SortByKey([i \in 1..Len(keys) |->
                               [key |-> DecimalValue(keys[i]), text |-> keys[i]]])
    IN [i \in 1..Len(keys) |-> sorted[i].text]

\* node aggregate script: scan the ledger files, write the output file
DataAggregate ==
    /\ dpc = "ledgers" /\ aggRuns < 2
    /\ LET blackListFiles == SelectSeq(Readdir(resources), IsLedgerFile)
           sorted == SortedKeys(ReceiptSet(resources, blackListFiles))
           written == JoinWith(sorted, <<LF>>) \o <<LF>>
       IN /\ scanned' = blackListFiles
          /\ resources' = [name \in DOMAIN resources \cup {OutputName} |->
                              IF name = OutputName THEN written ELSE resources[name]]
    /\ aggRuns' = aggRuns + 1
    /\ UNCHANGED <<entries, dpc, groups, partition, chunkVars, parseVars, updVars, runVars>>

\* const batches = chunkArray(receiptGroups, config.receiptBatchSize)
DataChunk ==
    /\ dpc = "items"
    /\ chunks' = ChunkArrayCall(chunkItems, chunkSize)
    /\ dpc' = "chunked"
    /\ UNCHANGED <<entries, groups, partition, chunkItems, chunkSize, parseVars,
                   aggVars, updVars, runVars>>

\* const entries = parseMalformedData()
DataParse ==
    /\ dpc = "file"
    /\ parsed' = ParseMalformedData(content)
    /\ dpc' = "parsed"
    /\ UNCHANGED <<entries, groups, partition, chunkVars, fileLines, content,
                   aggVars, updVars, runVars>>

(* ------------- updateReceiptInvoices and the submit after it ----------- *)
\* faulty variant: one attempt more
RemoveAttemptsFour == 3 + 1

\* for (let attempt = 1; attempt <= 3; attempt++)
RemoveAttempts == 3

\* how one attempt of openRemoveMenuAndClickRemoveAll can end: at its
\* return, or at the throw of an expectation before the menu is open, of
\* the click on the remove-all item, or of the wait for the menu to close
RemoveOutcomes == {"ok", "menu not opened", "item not clicked", "menu not closed"}

\* what the try block did on the page before it ended that way
AttemptEvents(outcome) ==
    CASE outcome = "ok" ->
           <<<<"menu opened">>, <<"remove all clicked">>, <<"menu closed">>>>
      [] outcome = "menu not opened" -> <<>>
      [] outcome = "item not clicked" -> <<<<"menu opened">>>>
      [] outcome = "menu not closed" -> <<<<"menu opened">>, <<"remove all clicked">>>>

\* an error leaves updateReceiptInvoices; its caller does not catch it
UpdThrow(err) == upc' = "threw" /\ thrown' = err

\* waitForReceiptMasterIndexAuto, the invoices tab, the remove container
UpdBegin ==
    /\ dpc = "update" /\ upc = "start"
    /\ \/ upc' = "remove" /\ attempt' = 1 /\ UNCHANGED thrown
       \/ UpdThrow([attempt |-> 0, kind |-> "invoices tab not ready"]) /\ UNCHANGED attempt
    /\ UNCHANGED <<entries, dpc, groups, partition, chunkVars, parseVars, aggVars,
                   updReceipt, rcptType, actionList, lastError, invoiceIndex, uiEvents, runVars>>

\* one pass of the for loop: the try block, and on a throw the catch
\* block, whose Escape key press can throw in its turn
UpdRemoveAttempt ==
    /\ dpc = "update" /\ upc = "remove" /\ attempt <= RemoveAttempts
    /\ \E outcome \in RemoveOutcomes :
          IF outcome = "ok"
            THEN /\ uiEvents' = uiEvents \o AttemptEvents(outcome)
                 /\ upc' = "add"
                 /\ UNCHANGED <<attempt, lastError, thrown>>
            ELSE /\ lastError' = [attempt |-> attempt, kind |-> outcome]
                 /\ \/ /\ uiEvents' = uiEvents \o AttemptEvents(outcome) \o <<<<"escape">>>>
                       /\ attempt' = attempt + 1
                       /\ UNCHANGED <<upc, thrown>>
                    \/ /\ uiEvents' = uiEvents \o AttemptEvents(outcome)
                       /\ UpdThrow([attempt |-> attempt, kind |-> "escape failed"])
                       /\ UNCHANGED attempt
    /\ UNCHANGED <<entries, dpc, groups, partition, chunkVars, parseVars, aggVars,
                   updReceipt, rcptType, actionList, invoiceIndex, runVars>>

\* throw lastError
UpdRemoveThrow ==
    /\ dpc = "update" /\ upc = "remove" /\ attempt > RemoveAttempts
    /\ UpdThrow(lastError)
    /\ UNCHANGED <<entries, dpc, groups, partition, chunkVars, parseVars, aggVars,
                   updReceipt, rcptType, actionList, attempt, lastError, invoiceIndex, uiEvents, runVars>>

\* faulty variant: the labels are added from the last to the first
LabelToAddBackwards(receipt, index) ==
    receipt.invNumbers[Len(receipt.invNumbers) - index]
\* for (const [invoiceIndex, invNumber] of receipt.invNumbers.entries())
LabelToAdd(receipt, index) == receipt.invNumbers[index + 1]

\* one pass of the loop over invNumbers: open the search dialog (options
\* menu for the first label, the direct button after it), search and select
UpdAdd ==
    /\ dpc = "update" /\ upc = "add" /\ invoiceIndex < Len(updReceipt.invNumbers)
    /\ \/ /\ uiEvents' = uiEvents \o <<<<"add", LabelToAdd(updReceipt, invoiceIndex)>>>>
          /\ invoiceIndex' = invoiceIndex + 1
          /\ UNCHANGED <<upc, thrown>>
       \/ /\ UpdThrow([attempt |-> 0, kind |-> "add failed"])
          /\ UNCHANGED <<uiEvents, invoiceIndex>>
    /\ UNCHANGED <<entries, dpc, groups, partition, chunkVars, parseVars, aggVars,
                   updReceipt, rcptType, actionList, attempt, lastError, runVars>>

\* waitForReceiptMasterIndexAuto after the loop, then the return
UpdReturn ==
    /\ dpc = "update" /\ upc = "add" /\ invoiceIndex >= Len(updReceipt.invNumbers)
    /\ \/ upc' = "submit" /\ UNCHANGED thrown
       \/ UpdThrow([attempt |-> 0, kind |-> "index not <AUTO>"])
    /\ UNCHANGED <<entries, dpc, groups, partition, chunkVars, parseVars, aggVars,
                   updReceipt, rcptType, actionList, attempt, lastError, invoiceIndex, uiEvents, runVars>>

\* await clickSubmitAction(page), after updateReceiptInvoices has returned
UpdSubmit ==
    /\ dpc = "update" /\ upc = "submit"
    /\ uiEvents' = Append(uiEvents, <<"submit">>)
    /\ upc' = "submitted"
    /\ UNCHANGED <<entries, dpc, groups, partition, chunkVars, parseVars, aggVars,
                   updReceipt, rcptType, actionList, attempt, lastError, thrown, invoiceIndex, runVars>>

(* ------------- the Folder dialog of processReceipt ---------------------- *)
\* const nxUnit = rcptType.split('-')[0].trim()
NxUnit(type) == Trim(SplitOn(type, "-")[1])

\* faulty variant: the unit is selected for every code
SelectsUnitAlways(nxUnit) == TRUE
\* if (nxUnit !== '9100')
SelectsUnit(nxUnit) == nxUnit # <<"9", "1", "0", "0">>

\* one awaited stretch of the dialog: it does what it does on the page, or
\* one of its waits or clicks throws
FolderStep(from, to, events, kind) ==
    /\ dpc = "folder" /\ upc = from
    /\ \/ upc' = to /\ uiEvents' = uiEvents \o events /\ UNCHANGED thrown
       \/ UpdThrow([attempt |-> 0, kind |-> kind]) /\ UNCHANGED uiEvents
    /\ UNCHANGED <<entries, dpc, groups, partition, chunkVars, parseVars, aggVars,
                   updReceipt, rcptType, actionList, attempt, lastError, invoiceIndex, runVars>>

\* the toolbar's overflow menu, then its Folder item
FolderOpen == FolderStep("start", "unit", <<<<"folder dialog">>>>, "no Folder menu item")

\* the unit dropdown: open it, type the code, click the first option left
FolderSelectUnit ==
    FolderStep("unit", "reversal",
               IF SelectsUnit(NxUnit(rcptType))
                 THEN <<<<"select unit", NxUnit(rcptType)>>>> ELSE <<>>,
               "no unit option")

\* the Reversal checkbox
FolderReversal ==
    FolderStep("reversal", "reallocate", <<<<"reversal">>>>, "no Reversal checkbox")

\* delay(1000), then the Reallocate checkbox
FolderReallocate ==
    FolderStep("reallocate", "fill", <<<<"reallocate">>>>, "no Reallocate checkbox")

\* the date read from the item, then the configured reason
FolderFill == FolderStep("fill", "submit", <<<<"date">>, <<"reason">>>>, "no input field")

\* clickSubmitAction
FolderSubmit ==
    FolderStep("submit", "submitted", <<<<"submit">>>>,
               "Unable to click Submit/Release button")

(* ------------- the drain loop and the content of the action list ------- *)
\* the units that survived phase 1, in the order phase 1 went through them
\* and created their items
Survivors(list) == [i \in 1..Cardinality({ j \in 1..Len(list) : list[j] # 0 }) |-> i]

\* Open the oldest item (last in the list)
OldestItem(list) == list[Len(list)]

\* const receiptQueue = [...receiptGroups] and the other locals
DrainEnter ==
    /\ dpc = "drain" /\ upc = "enter"
    /\ receiptQueue' = Survivors(actionList)
    /\ maxIterations' = MaxIterations(Len(Survivors(actionList)))
    /\ submitted' = 0 /\ iteration' = 0
    /\ lastActionListCount' = Infinity /\ consecutiveStalls' = 0
    /\ upc' = "iter"
    /\ UNCHANGED <<entries, dpc, groups, partition, chunkVars, parseVars, aggVars,
                   updReceipt, rcptType, actionList, attempt, lastError, thrown,
                   invoiceIndex, uiEvents,
                   inputVars, pc, error, loopVars, waitVars, ledgerVars, jobVars,
                   currentReceipt, phase3Result, count, remainingCount, drainExit,
                   p3Failures, lastCall, phaseVars>>

\* one pass up to the submit: count, empty check, stall detection, open an
\* item, shift the queue and update the item with the unit shifted out
DrainIter ==
    /\ dpc = "drain" /\ upc = "iter"
    /\ count' = Len(actionList)
    /\ IF iteration >= maxIterations \/ IsEmpty(count')
         THEN /\ upc' = "done"
              /\ UNCHANGED <<lastActionListCount, consecutiveStalls, receiptQueue,
                             currentReceipt, uiEvents>>
       ELSE IF CountGE(count', lastActionListCount)
                 /\ consecutiveStalls + 1 >= maxConsecutiveStalls
         THEN /\ consecutiveStalls' = consecutiveStalls + 1
              /\ upc' = "done"
              /\ UNCHANGED <<lastActionListCount, receiptQueue, currentReceipt, uiEvents>>
       ELSE /\ consecutiveStalls' = IF CountGE(count', lastActionListCount)
                                      THEN consecutiveStalls + 1 ELSE 0
            /\ lastActionListCount' = count'
            /\ IF Len(receiptQueue) > 0
                 THEN /\ currentReceipt' = Head(receiptQueue)
                      /\ receiptQueue' = Shift(receiptQueue)
                      /\ uiEvents' = Append(uiEvents, <<"update", Head(receiptQueue),
                                                        OldestItem(actionList)>>)
                 ELSE /\ currentReceipt' = 0
                      /\ UNCHANGED receiptQueue
                      /\ uiEvents' = Append(uiEvents, <<"unchanged", 0,
                                                        OldestItem(actionList)>>)
            /\ upc' = "result"
    /\ UNCHANGED <<entries, dpc, groups, partition, chunkVars, parseVars, aggVars,
                   updReceipt, rcptType, actionList, attempt, lastError, thrown,
                   invoiceIndex,
                   inputVars, pc, error, loopVars, waitVars, ledgerVars, jobVars,
                   submitted, maxIterations, iteration, phase3Result, remainingCount,
                   drainExit, p3Failures, lastCall, phaseVars>>

\* the submit and its result: a submitted item leaves the action list, an
\* item whose submit failed stays where it is; then iteration++
DrainResult ==
    /\ dpc = "drain" /\ upc = "result"
    /\ \E success \in BOOLEAN :
          /\ submitted' = SubmittedAfter([success |-> success], submitted)
          /\ actionList' = IF success THEN SubSeq(actionList, 1, Len(actionList) - 1)
                           ELSE actionList
    /\ iteration' = iteration + 1
    /\ upc' = "iter"
    /\ UNCHANGED <<entries, dpc, groups, partition, chunkVars, parseVars, aggVars,
                   updReceipt, rcptType, attempt, lastError, thrown, invoiceIndex,
                   uiEvents,
                   inputVars, pc, error, loopVars, waitVars, ledgerVars, jobVars,
                   receiptQueue, maxIterations, lastActionListCount, consecutiveStalls,
                   currentReceipt, phase3Result, count, remainingCount, drainExit,
                   p3Failures, lastCall, phaseVars>>

(* ------------- the run's ledger file as the test writes it ------------- *)
RECURSIVE NaturalText(_)
\* the decimal digits of a natural number
NaturalText(n) ==
    IF n < 10 THEN <<Digits[n + 1]>> ELSE NaturalText(n \div 10) \o <<Digits[(n % 10) + 1]>>

\* `${receipt.rcptMasterIndex}`: Number.prototype.toString of an integer
NumberText(n) == IF n < 0 THEN <<"-">> \o NaturalText(0 - n) ELSE NaturalText(n)

\* fs.appendFileSync(path, text): the file is created when it is not there
AppendFile(dir, name, text) ==
    [f \in DOMAIN dir \cup {name} |->
        IF f # name THEN dir[f]
        ELSE IF name \in DOMAIN dir THEN dir[name] \o text ELSE text]

\* appendToBlackList for the next blocked unit: the header with the key and
\* the popup message, the unit's raw lines, a blank line
DataRecord ==
    /\ dpc = "recording" /\ groups # <<>>
    /\ \E popupMessage \in {<<"M">>} :
          LET receipt == Head(groups)
              header == HeaderPrefix \o NumberText(receipt.rcptMasterIndex)
                        \o <<" ", "--", " ">> \o popupMessage \o <<LF>>
              lines == JoinWith(receipt.rawLines, <<LF>>)
          IN resources' = AppendFile(resources, BlackListRunName,
                                     header \o lines \o <<LF, LF>>)
    /\ uiEvents' = Append(uiEvents, <<"record", Head(groups).rcptMasterIndex>>)
    /\ groups' = Tail(groups)
    /\ dpc' = IF Tail(groups) = <<>> THEN "ledgers" ELSE dpc
    /\ UNCHANGED <<entries, partition, chunkVars, parseVars, scanned, aggRuns,
                   updReceipt, rcptType, actionList, upc, attempt, lastError, thrown,
                   invoiceIndex, runVars>>

\* the phase 3 branch for a blocked item no unit was popped for
DataRecordUnknown ==
    /\ dpc \in {"recording", "ledgers"} /\ aggRuns = 0
    /\ entries # <<>> /\ \A i \in 1..Len(uiEvents) : uiEvents[i] # <<"unknown">>
    /\ \E msg \in LedgerMessages :
          resources' = AppendFile(resources, BlackListRunName,
                                  <<"#", " ", "U", "n", "k", "n", "o", "w", "n", " ",
                                    "r", "e", "c", "e", "i", "p", "t", " ", "--", " ">>
                                  \o msg \o <<LF, LF>>)
    /\ uiEvents' = Append(uiEvents, <<"unknown">>)
    /\ UNCHANGED <<entries, dpc, groups, partition, chunkVars, parseVars, scanned, aggRuns,
                   updReceipt, rcptType, actionList, upc, attempt, lastError, thrown,
                   invoiceIndex, runVars>>

NextData ==
    \/ DataGroup \/ DataSplit \/ DataSplitTwo \/ DataChunk \/ DataParse \/ DataAggregate
    \/ UpdBegin \/ UpdRemoveAttempt \/ UpdRemoveThrow \/ UpdAdd \/ UpdReturn \/ UpdSubmit
    \/ FolderOpen \/ FolderSelectUnit \/ FolderReversal \/ FolderReallocate \/ FolderFill
    \/ FolderSubmit \/ DrainEnter \/ DrainIter \/ DrainResult
    \/ DataRecord \/ DataRecordUnknown

SpecData == InitData /\ [][NextData]_vars

(* ------------------------------ properties ----------------------------- *)
AllPhases == {1, 2, 3}
Terminal == {"done", "aborted"}
DrainBody == {"p3_open", "p3_update", "p3_submit", "p3_wait", "p3_result"}
DrainPcs == DrainBody \cup {"p3_iter", "p3_final"}
LedgerKeys == { blackList[i].receipt : i \in 1..Len(blackList) }
NoDuplicates(xs) == \A i, j \in 1..Len(xs) : xs[i] = xs[j] => i = j
\* the unit whose processReceipt call has just returned
Returned == Batch[receiptPos]
JustReturned == pc = "p1_loop" /\ receiptPos > 0 /\ submitResult # NoResult
FailureText == Coalesce(submitResult.popupMessage)

\* C1: an external call that belongs to batch N+1 is issued only when all
\* three phases of every earlier batch have finished.
C1_BatchesSequential ==
    lastCall.kind \notin {"none", "login"} =>
        \A b \in 0..(lastCall.batch - 1) : phaseEnded[b] = AllPhases

C1_Witness ==
    /\ lastCall.kind = "open" /\ lastCall.batch = 1
    /\ jobParams[0] # NoParam

\* C2: within a batch the job trigger starts only after processReceipt has
\* returned for every unit of the batch, and the drain is entered only after
\* the job trigger has returned or was skipped.
C2_PhasesInOrder ==
    /\ \A b \in BatchIds :
          /\ 2 \in phaseStarted[b] => 1 \in phaseEnded[b]
          /\ 3 \in phaseStarted[b] => {1, 2} \subseteq phaseEnded[b]
    /\ lastCall.kind \in {"jobStart", "refresh"} =>
          /\ lastCall.batch = batchIndex
          /\ receiptPos = Len(Batch)
          /\ 3 \notin phaseStarted[batchIndex]

C2_Witness ==
    /\ pc = "p3_iter"
    /\ jobParams[batchIndex] # NoParam
    /\ Len(Batch) = 2

\* C3: the parameter filled into the job of a batch lists, once each, exactly
\* the qualifying references of the units of that batch that survived phase 1
\* (the units of the batch that phase 1 did not put on the ledger).
C3_JobParameterIsSurvivorUnion ==
    pc = "p2_poll" =>
        LET param == jobParams[batchIndex]
            survivors == Range(Batch) \ LedgerKeys
        IN /\ NoDuplicates(param)
           /\ Range(successfulReceipts) = survivors
           /\ Range(param) = UNION { Range(receiptGroups[k]) : k \in survivors }

C3_Witness ==
    /\ pc = "p2_poll"
    /\ \E k \in Range(Batch) \cap LedgerKeys :
          ~(Range(receiptGroups[k]) \subseteq Range(jobParams[batchIndex]))

\* C4: a phase 1 failure whose text contains the blocking phrase is put on
\* the ledger, then cancelled, and the unit does not survive; a failure with
\* any other text writes no ledger entry, issues no cancel, and the unit
\* survives.
C4_Phase1Classification ==
    /\ pc = "p1_cancel" =>
          /\ blackList # <<>>
          /\ blackList[Len(blackList)] = [receipt |-> Receipt, reason |-> FailureText]
          /\ Receipt \notin cancelled
    /\ lastCall.kind = "cancel" => lastCall.unit \in LedgerKeys
    /\ (JustReturned /\ ~submitResult.success) =>
          IF Includes(FailureText, BlockingPhrase)
            THEN /\ blackList[Len(blackList)] =
                        [receipt |-> Returned, reason |-> FailureText]
                 /\ Returned \in cancelled
                 /\ Returned \notin Range(successfulReceipts)
            ELSE /\ Returned \notin LedgerKeys
                 /\ Returned \notin cancelled
                 /\ successfulReceipts # <<>>
                 /\ successfulReceipts[Len(successfulReceipts)] = Returned

C4_Witness ==
    /\ JustReturned /\ receiptPos = 2
    /\ ~submitResult.success
    /\ submitResult.popupMessage = <<"Receipt reversed successfully">>
    /\ cancelled = {1} /\ LedgerKeys = {1}
    /\ successfulReceipts = <<2>>

\* C5: a phase 1 submit wait that saw neither the sentinel nor a notification
\* returns the timeout failure, and that unit is not ledgered, not cancelled
\* and counted as a survivor.
C5_Phase1Timeout ==
    JustReturned =>
        LET timeout == [success |-> FALSE,
                        popupMessage |-> Phase1TimeoutMessage(Phase1Label(Returned))]
        IN /\ waitSeen = {} => submitResult = timeout
           /\ submitResult = timeout =>
                 /\ Returned \notin LedgerKeys
                 /\ Returned \notin cancelled
                 /\ successfulReceipts # <<>>
                 /\ successfulReceipts[Len(successfulReceipts)] = Returned

C5_Witness ==
    /\ JustReturned
    /\ waitSeen = {}
    /\ submitResult.popupMessage = Phase1TimeoutMessage(Phase1Label(Returned))
    /\ Returned \in Range(successfulReceipts)

\* C6: when the job of a batch passes its deadline without Completed, the
\* trigger fails and the drain of that batch is never entered.
C6_JobTimeoutHaltsPhase3 ==
    \A b \in jobTimedOut :
        /\ 3 \notin phaseStarted[b]
        /\ 2 \notin phaseEnded[b]
        /\ pc = "aborted" /\ error = "Runbook did not complete"

C6_Witness == jobTimedOut # {} /\ Len(successfulReceipts) = 2

\* C7: a job timeout in batch N is fatal for batch N only: phase 1 of every
\* later batch is still started and the run reaches its end.
C7_LaterBatchesProceed ==
    \A b \in jobTimedOut :
        pc \in Terminal =>
            /\ pc = "done"
            /\ \A later \in (b + 1)..(Len(batches) - 1) : 1 \in phaseStarted[later]

\* errors thrown by an external step of one unit
UnitStepErrors ==
    { "Unable to click Submit/Release button", "remove all failed",
      "cancel button not visible" }

\* C8: with the source file present and a positive batch size, a failed
\* external step of one unit does not terminate the run.
C8_UnitFailureDoesNotEndRun ==
    (fileExists /\ receiptBatchSize > 0 /\ error \in UnitStepErrors) => pc # "aborted"

\* the bound on the loop index, and the reason recorded when the loop ends
DrainWithinCap ==
    /\ pc \in DrainBody => iteration < Len(successfulReceipts) + 20
    /\ pc \in DrainPcs => iteration <= Len(successfulReceipts) + 20
    /\ pc = "p3_final" =>
          /\ drainExit \in {"empty", "stalled", "cap"}
          /\ drainExit = "cap" <=> iteration = Len(successfulReceipts) + 20
    /\ pc \in DrainPcs \ {"p3_final"} => drainExit = "none"

\* C9: the drain loop runs at most (survivors + 20) iterations, whatever the
\* action list reports and whatever each submit gives: every pass that comes
\* back to the loop head has raised the index by one, no pass starts at the
\* cap, and from the cap the loop goes to the final check of the list.
C9_DrainBounded ==
    /\ []DrainWithinCap
    /\ [][(pc \in DrainBody /\ pc' = "p3_iter") => iteration' = iteration + 1]_vars
    /\ [][(pc = "p3_iter" /\ pc' = "p3_iter") => FALSE]_vars
    /\ [][(pc = "p3_iter" /\ iteration = Len(successfulReceipts) + 20)
            => (pc' = "p3_final" /\ lastCall' = lastCall)]_vars

C9_Witness ==
    /\ pc = "p3_final" /\ drainExit = "cap"
    /\ Len(successfulReceipts) = 2
    /\ p3Failures > 0

\* C10: when the action list reports 5, 5, 5, 5, the drain breaks off at the
\* fourth report, which is the third that shows no decrease: three items
\* were opened, and no fifth report is asked for.
C10_StallExample ==
    (pendingScript = <<5, 5, 5, 5>> /\ pc \in DrainPcs) =>
        /\ iteration <= 3
        /\ consecutiveStalls = (IF pc = "p3_final" THEN 3
                                ELSE IF pc = "p3_iter" /\ iteration > 0 THEN iteration - 1
                                ELSE iteration)
        /\ pc = "p3_final" => (drainExit = "stalled" /\ iteration = 3)
        /\ (pc = "p3_iter" /\ iteration = 3) => lastActionListCount = 5

C10_Witness ==
    /\ pendingScript = <<5, 5, 5, 5>>
    /\ pc = "p3_final" /\ drainExit = "stalled"
    /\ iteration = 3 /\ consecutiveStalls = 3

(* ------------- properties of the drain, ledger and grouping ----------- *)
\* a step of the drain that read a non-empty list
NonEmptyObservation ==
    /\ pc = "p3_iter" /\ pc' \in {"p3_open", "p3_final"}
    /\ drainExit' # "cap" /\ count' # 0

\* C11: the stall counter counts consecutive observations that did not
\* strictly decrease: an observation >= the previous one adds one, a strictly
\* smaller one (and the first one of the drain) sets it back to 0, and the
\* drain is left as stalled exactly when the counter reaches 3
C11_StallDetection ==
    /\ [](pc = "p3_iter" =>
            /\ (iteration = 0 <=> lastActionListCount = Infinity)
            /\ (iteration = 0 => consecutiveStalls = 0)
            /\ consecutiveStalls \in 0..2)
    /\ [][NonEmptyObservation =>
            LET notDecreased == iteration > 0 /\ count' >= lastActionListCount IN
            /\ consecutiveStalls' = IF notDecreased THEN consecutiveStalls + 1 ELSE 0
            /\ (pc' = "p3_final" /\ drainExit' = "stalled") <=> consecutiveStalls' = 3
            /\ pc' = "p3_open" => lastActionListCount' = count']_vars

\* a drain left as stalled after the counter had been set back on the way,
\* its last observation equal to the one before
C11_Witness ==
    /\ pc = "p3_final" /\ drainExit = "stalled"
    /\ iteration > 3 /\ count = lastActionListCount

\* C12: a pass that reads an empty list ends the drain at once: the queue,
\* the stall counter and the submit counter stay as they are, no item is
\* opened and nothing is submitted; all that follows for the batch is the
\* final count. The empty check comes before the stall detection, so an empty
\* list is never counted as a stall
C12_EmptyStopsDrain ==
    /\ [][(pc = "p3_iter" /\ lastCall'.kind = "fetch" /\ pc' # "aborted"
              /\ count' = 0) =>
            /\ pc' = "p3_final" /\ drainExit' = "empty"
            /\ UNCHANGED <<receiptQueue, consecutiveStalls, submitted, currentReceipt,
                           lastActionListCount, blackList>>]_vars
    /\ [][(pc = "p3_final" /\ drainExit = "empty") =>
            /\ lastCall'.kind = "finalFetch"
            /\ pc' \in {"batch_next", "aborted"}
            /\ UNCHANGED blackList]_vars
    /\ [](drainExit = "empty" =>
            /\ pc \in {"p3_final", "batch_next", "aborted"}
            /\ lastCall.kind \in {"fetch", "finalFetch"})

\* the list is read empty with two stalls on the counter, after items were
\* submitted
C12_Witness ==
    /\ pc = "p3_final" /\ drainExit = "empty" /\ count = 0
    /\ consecutiveStalls = 2 /\ submitted > 0

\* items of the list opened so far in the running drain
ItemsOpened ==
    IF pc \in {"p3_update", "p3_submit", "p3_wait", "p3_result"}
      THEN iteration + 1 ELSE iteration

\* xs can be had from ys by leaving elements out, keeping the order
IsSubsequence(xs, ys) ==
    \E f \in [1..Len(xs) -> 1..Len(ys)] :
        /\ \A i \in 1..Len(xs) : xs[i] = ys[f[i]]
        /\ \A i, j \in 1..Len(xs) : i < j => f[i] < f[j]

\* C13: in the drain the queue is what is left of the batch's phase 1
\* survivors, in the batch's order, after one unit per opened item was taken
\* from its head; the unit reconciled in pass i is survivor number i, so no
\* unit is reconciled twice; once the queue is empty an opened item is
\* submitted without a reference update
C13_QueueOrder ==
    /\ [](pc \in DrainPcs =>
            LET n == Len(successfulReceipts) IN
            /\ IsSubsequence(successfulReceipts, Batch)
            /\ receiptQueue = SubSeq(successfulReceipts, Min(ItemsOpened, n) + 1, n)
            /\ pc \in {"p3_update", "p3_submit", "p3_wait", "p3_result"} =>
                 currentReceipt = IF iteration < n
                                    THEN successfulReceipts[iteration + 1] ELSE 0
            /\ lastCall.kind = "update" =>
                 /\ iteration < n
                 /\ lastCall.unit = successfulReceipts[iteration + 1])
    /\ [][(pc = "p3_open" /\ pc' \notin {"p3_open", "aborted"}) =>
            IF receiptQueue # <<>>
              THEN /\ currentReceipt' = Head(receiptQueue)
                   /\ receiptQueue' = Tail(receiptQueue)
                   /\ pc' = "p3_update"
              ELSE /\ currentReceipt' = 0 /\ receiptQueue' = <<>>
                   /\ pc' = "p3_submit"]_vars
    /\ [][(pc \in DrainPcs \ {"p3_open", "p3_final"}) =>
            receiptQueue' = receiptQueue]_vars

\* both survivors of a batch were reconciled in order and a third item is
\* being submitted with the queue empty
C13_Witness ==
    /\ pc = "p3_submit" /\ Len(successfulReceipts) = 2 /\ iteration = 2
    /\ receiptQueue = <<>> /\ currentReceipt = 0

\* C14: a failed submit of the drain appends to the ledger exactly when its
\* text contains the blocking phrase (under the popped unit's key, or as
\* unknown when the queue was empty) and writes nothing otherwise; it is
\* never cancelled, and the loop goes on with the next pass. No step of the
\* drain issues a cancel
C14_Phase3BlockNotCancelled ==
    /\ [][(pc = "p3_result" /\ ~phase3Result.success /\ pc' # pc) =>
            LET msg == Coalesce(phase3Result.popupMessage) IN
            /\ blackList' = IF Includes(msg, BlockingPhrase)
                              THEN Append(blackList, [receipt |-> currentReceipt,
                                                      reason |-> msg])
                              ELSE blackList
            /\ lastCall'.kind = "dashboard"
            /\ pc' # "aborted" =>
                 /\ pc' = "p3_iter" /\ iteration' = iteration + 1
                 /\ submitted' = submitted]_vars
    /\ [][(pc \in DrainPcs) => (cancelled' = cancelled)]_vars
    /\ [](pc \in DrainPcs => lastCall.kind # "cancel")

\* the drain goes on after a blocked unit of the queue was ledgered, and the
\* unit was not cancelled
C14_Witness ==
    /\ pc = "p3_iter" /\ ~phase3Result.success /\ currentReceipt # 0
    /\ Includes(Coalesce(phase3Result.popupMessage), BlockingPhrase)
    /\ blackList # <<>>
    /\ blackList[Len(blackList)].receipt = currentReceipt
    /\ currentReceipt \notin cancelled

\* C15: the submit counter is 0 when the drain starts, goes up by exactly
\* one at the end of a pass whose wait reported success, stays as it is in
\* every other step of the drain (a pass ended by a popup or by the wait's
\* deadline included), and never exceeds the number of items opened
C15_SubmittedCounter ==
    /\ [][(pc = "p3_enter" /\ pc' = "p3_iter") => submitted' = 0]_vars
    /\ [][(pc = "p3_result" /\ pc' = "p3_iter") =>
            submitted' = IF phase3Result.success THEN submitted + 1 ELSE submitted]_vars
    /\ [][(pc = "p3_result" /\ pc' = "p3_iter" /\ phase3Result.success) =>
            phase3Result.popupMessage = Undefined]_vars
    /\ [][(pc \in DrainPcs \ {"p3_result", "p3_final"}) =>
            submitted' = submitted]_vars
    /\ [][(pc = "p3_result" /\ pc' = "aborted") => submitted' = submitted]_vars
    /\ [](pc \in DrainPcs => submitted \in 0..ItemsOpened)
    /\ [](pc \in {"p3_update", "p3_submit", "p3_wait", "p3_result"} =>
            submitted < ItemsOpened)

\* three items were opened, one pass ended in a failure and two in success
C15_Witness ==
    /\ pc = "p3_iter" /\ iteration = 3 /\ submitted = 2 /\ p3Failures = 1

\* C16: a drain that stalled or ran into its cap is left without an error:
\* the loop's end leads to the final verification, which reads the list once
\* and changes nothing whatever size it reports; the function then returns
\* normally and the batch loop goes on to the next batch, if there is one.
\* Only a throw of the final navigation itself can still end the run
C16_DrainEndIsNotAnError ==
    /\ [][(drainExit = "none" /\ drainExit' \in {"empty", "stalled", "cap"}) =>
            pc' = "p3_final" /\ error' = error]_vars
    /\ [][(pc = "p3_final") =>
            /\ lastCall'.kind = "finalFetch"
            /\ UNCHANGED <<blackList, cancelled, successfulReceipts, batchIndex>>
            /\ pc' # "aborted" =>
                 /\ pc' = "batch_next" /\ error' = "none"
                 /\ 3 \in phaseEnded'[batchIndex]]_vars
    /\ [][(pc = "batch_next") =>
            pc' = "batch_loop" /\ batchIndex' = batchIndex + 1 /\ error' = "none"]_vars
    /\ [][(pc = "batch_loop" /\ batchIndex < Len(batches)) =>
            pc' = "p1_loop" /\ 1 \in phaseStarted'[batchIndex]]_vars
    /\ [](pc = "batch_next" => error = "none" /\ lastCall.kind = "finalFetch")
    /\ [](drainExit \in {"stalled", "cap"} =>
            /\ pc \in {"p3_final", "batch_next", "aborted"}
            /\ pc = "aborted" =>
                 error = "navigation failed" /\ lastCall.kind = "finalFetch")

\* a stalled drain has returned with items still listed, no error is set and
\* another batch is waiting
C16_Witness ==
    /\ pc = "batch_next" /\ drainExit = "stalled" /\ remainingCount > 0
    /\ error = "none" /\ batchIndex + 1 < Len(batches)

\* C17: the ledger is append-only: whatever it holds stays where it is, as a
\* prefix of what it holds after any step; there is one ledger for the run,
\* to which every batch appends
C17_LedgerAppendOnly ==
    [][/\ Len(blackList') >= Len(blackList)
       /\ SubSeq(blackList', 1, Len(blackList)) = blackList
       /\ Len(blackList') <= Len(blackList) + 1]_vars

\* the ledger holds an entry of a unit of the first batch followed by an
\* entry of a unit of the second batch
C17_Witness ==
    /\ Len(blackList) = 2 /\ Len(batches) = 2
    /\ blackList[1].receipt \in Range(batches[1])
    /\ blackList[2].receipt \in Range(batches[2])

\* the phase the current batch is in: entered and not yet returned from
InPhase(p) ==
    /\ pc \notin {"start", "batch_loop", "done"}
    /\ batchIndex < Len(batches)
    /\ p \in phaseStarted[batchIndex] /\ p \notin phaseEnded[batchIndex]

\* C18: the ledger changes only in steps of phase 1 and of phase 3; no step
\* of the job trigger (collecting the parameter, starting the job, polling
\* its status, running into its deadline) changes it
C18_LedgerOnlyInPhases1And3 ==
    /\ [][(blackList' # blackList) =>
            /\ InPhase(1) \/ InPhase(3)
            /\ ~InPhase(2)
            /\ pc \in {"p1_classify", "p3_result"}]_vars
    /\ [][(pc \in {"p2", "p2_start", "p2_poll"} \/ InPhase(2)) =>
            blackList' = blackList]_vars

\* the job of a batch ran into its deadline after polling, with an entry of
\* phase 1 in the ledger
C18_Witness ==
    /\ jobTimedOut # {} /\ error = "Runbook did not complete"
    /\ blackList # <<>>

\* C19: every unit the grouper builds carries as invMasterIndices exactly
\* the distinct invMasterIndex values of its own entries whose status is
\* CORRUPTED, each once; a value found only in entries of another status is
\* not among them
C19_CorruptedIndicesOnly ==
    dpc = "grouped" =>
        \A g \in 1..Len(groups) :
            LET unit == groups[g]
                own == { e \in Range(entries) : e.rcptMasterIndex = unit.rcptMasterIndex }
            IN /\ Range(unit.entries) = own
               /\ Range(unit.invMasterIndices) =
                      { e.invMasterIndex : e \in { x \in own : x.status = "CORRUPTED" } }
               /\ NoDuplicates(unit.invMasterIndices)
               /\ \A e \in own :
                      (\A x \in own : x.invMasterIndex = e.invMasterIndex
                                        => x.status # "CORRUPTED")
                      => e.invMasterIndex \notin Range(unit.invMasterIndices)

\* a unit with a CORRUPTED entry, twice the same value, and an entry of
\* another status whose value is left out
C19_Witness ==
    /\ dpc = "grouped"
    /\ \E g \in 1..Len(groups) :
          /\ Len(groups[g].entries) = 3
          /\ Len(groups[g].invMasterIndices) = 1
          /\ \E e \in Range(groups[g].entries) :
                /\ e.status = "FIXED"
                /\ e.invMasterIndex \notin Range(groups[g].invMasterIndices)
          /\ groups[g].entries[1].status = "CORRUPTED"
          /\ groups[g].entries[2].status = "CORRUPTED"

\* the invMaster values of the rows whose receipt is in the set
RefsOf(receipts) ==
    { e.invMasterIndex : e \in { x \in Range(entries) : x.rcptMasterIndex \in receipts } }

\* C20: in the partition splitData builds, with three groups and with two,
\* every receipt of the input is in exactly one group, no invMaster value is
\* touched by receipts of two groups, and the groups' invMaster values
\* together are those of the input
C20_PartitionDisjoint ==
    dpc \in {"split", "splitTwo"} =>
        LET gr == partition.groupReceipts
            all == { e.rcptMasterIndex : e \in Range(entries) }
        IN /\ Len(gr) = IF dpc = "split" THEN 3 ELSE 2
           /\ \A r \in all : Cardinality({ i \in 1..Len(gr) : r \in gr[i] }) = 1
           /\ \A i \in 1..Len(gr) : gr[i] \subseteq all
           /\ \A i, j \in 1..Len(gr) :
                 i # j => RefsOf(gr[i]) \cap RefsOf(gr[j]) = {}
           /\ UNION { RefsOf(gr[i]) : i \in 1..Len(gr) } = RefsOf(all)

\* three receipts, two of them sharing an invMaster value and so in one
\* group, the third in another group
C20_Witness ==
    /\ dpc = "split"
    /\ Cardinality({ e.rcptMasterIndex : e \in Range(entries) }) = 3
    /\ \E i, j \in 1..Len(partition.groupReceipts) :
          /\ i # j
          /\ Cardinality(partition.groupReceipts[i]) = 2
          /\ Cardinality(partition.groupReceipts[j]) = 1
          /\ Cardinality(RefsOf(partition.groupReceipts[i])) = 1

(* ------------------ properties of the offline functions ---------------- *)
\* the receipts of the rows
AllReceipts == { e.rcptMasterIndex : e \in Range(entries) }

\* the rows of a set of receipts
LinesOf(receipts) == { e \in Range(entries) : e.rcptMasterIndex \in receipts }

RECURSIVE Closure(_)
\* the receipts tied to a set of receipts by chains of shared invMaster values
Closure(receipts) ==
    LET more == { r \in AllReceipts : RefsOf({r}) \cap RefsOf(receipts) # {} }
    IN IF more \subseteq receipts THEN receipts ELSE Closure(receipts \cup more)

\* the line count of the largest component (0 for no rows)
LargestComponent ==
    LET sizes == { Cardinality(LinesOf(Closure({r}))) : r \in AllReceipts } \cup {0}
    IN CHOOSE n \in sizes : \A m \in sizes : m <= n

\* C21: after the greedy assignment the groups' line counts are the counts
\* of their rows, and the largest exceeds the smallest by no more than the
\* line count of the largest single component
C21_BinBalance ==
    dpc \in {"split", "splitTwo"} =>
        LET gl == partition.groupLines
            gr == partition.groupReceipts
        IN /\ \A i \in 1..Len(gl) : gl[i] = Cardinality(LinesOf(gr[i]))
           /\ \A i, j \in 1..Len(gl) : gl[i] - gl[j] <= LargestComponent

\* three groups, a component of two rows in one, a single row in another,
\* the third empty: the difference is as large as the largest component
C21_Witness ==
    /\ dpc = "split"
    /\ partition.groupLines = <<2, 1, 0>>
    /\ LargestComponent = 2

\* C23: every row of the input is written to exactly one group's output,
\* the output of the group that has the row's receipt, and within an output
\* the rows are in the order of the input
C23_PartitionOutput ==
    dpc \in {"split", "splitTwo"} =>
        LET out == partition.groupOutputs
            gr == partition.groupReceipts
        IN /\ Len(out) = Len(gr)
           /\ \A n \in 1..Len(entries) :
                 \E g \in 1..Len(out) :
                    /\ entries[n].rcptMasterIndex \in gr[g]
                    /\ Cardinality({ k \in 1..Len(out[g]) : out[g][k] = n }) = 1
                    /\ \A h \in 1..Len(out) : h # g => n \notin Range(out[h])
           /\ \A g \in 1..Len(out) :
                 /\ Range(out[g]) \subseteq 1..Len(entries)
                 /\ \A k \in 1..(Len(out[g]) - 1) : out[g][k] < out[g][k + 1]

\* a group's output holds rows of two receipts interleaved as in the input,
\* and another group's output the row between them
C23_Witness ==
    /\ dpc = "splitTwo"
    /\ Len(entries) = 3
    /\ entries[1].rcptMasterIndex # entries[3].rcptMasterIndex
    /\ partition.groupOutputs = << <<1, 3>>, <<2>> >>

\* the lengths of the slices chunkArray returned
ChunkSizesOf(cs) == [i \in 1..Len(cs) |-> Len(cs[i])]

\* C24: chunkArray cuts the list into consecutive slices whose concatenation
\* is the input; every slice but the last has exactly `size` elements and the
\* last has between 1 and `size` (45 items with size 20 give 20, 20, 5); a
\* size of zero or less fails with the invalid-configuration error and
\* returns nothing.
C24_ChunkArray ==
    dpc = "chunked" =>
        IF chunkSize <= 0
          THEN chunks.threw = "Invalid batch size" /\ chunks.result = <<>>
          ELSE /\ chunks.threw = ""
               /\ Flatten(chunks.result) = chunkItems
               /\ \A i \in 1..Len(chunks.result) :
                     IF i < Len(chunks.result)
                       THEN Len(chunks.result[i]) = chunkSize
                       ELSE Len(chunks.result[i]) \in 1..chunkSize
               /\ (Len(chunkItems) = 45 /\ chunkSize = 20)
                     => ChunkSizesOf(chunks.result) = <<20, 20, 5>>

C24_Witness ==
    /\ dpc = "chunked" /\ Len(chunkItems) = 45 /\ chunkSize = 20
    /\ Len(chunks.result) = 3 /\ chunks.threw = ""

\* C25: when the input file is absent or the configured batch size is not
\* positive, the run fails with that error before login, before any unit is
\* opened, before any job is started and before any ledger write.
C25_FatalInputErrors ==
    (~fileExists \/ receiptBatchSize <= 0) =>
        /\ pc \in {"start", "aborted"}
        /\ pc = "aborted" =>
              error = (IF ~fileExists THEN "Malformed data file not found"
                       ELSE "Invalid batch size")
        /\ lastCall = NoCall
        /\ blackList = <<>>
        /\ \A b \in BatchIds : jobParams[b] = NoParam /\ phaseStarted[b] = {}

C25_Witness ==
    /\ pc = "aborted" /\ error = "Invalid batch size"
    /\ fileExists /\ receiptBatchSize <= 0 /\ Len(receiptGroups) > 0

\* the lines of the file that are not blank, as written
WrittenLines ==
    SelectSeq(fileLines,
              LAMBDA cols : \E i \in 1..Len(cols) : \E j \in 1..Len(cols[i]) :
                                ~IsSpace(cols[i][j]))
\* every written line has the columns the parser reads
WellFormedFile == \A i \in 1..Len(WrittenLines) : Len(WrittenLines[i]) >= MinColumns

\* C26: blank lines are ignored and the entries come in file order, one per
\* non-blank line; the entry's grouping key is column 4 read as an integer,
\* and its status is CORRUPTED when column 17 is absent, otherwise the
\* trimmed upper-cased content of that column.
C26_Parsing ==
    (dpc = "parsed" /\ WellFormedFile) =>
        /\ parsed.threw = ""
        /\ Len(parsed.result) = Len(WrittenLines)
        /\ \A i \in 1..Len(WrittenLines) :
              LET e == parsed.result[i]
                  cols == WrittenLines[i]
              IN /\ e.rawLine = JoinWith(cols, <<TAB>>)
                 /\ e.rcptMasterIndex = DecimalValue(SelectSeq(cols[5], IsDigit))
                 /\ e.status =
                       IF Len(cols) < 18 THEN CorruptedText
                       ELSE LET t == Trim(cols[18])
                            IN [j \in 1..Len(t) |-> UpperChar(t[j])]

C26_Witness ==
    /\ dpc = "parsed" /\ WellFormedFile
    /\ Len(WrittenLines) = 2 /\ Len(fileLines) > 2
    /\ Len(WrittenLines[1]) = 17 /\ parsed.result[1].status = CorruptedText
    /\ Len(WrittenLines[2]) = 18 /\ parsed.result[2].status = <<"O", "K">>
    /\ parsed.result[2].rcptMasterIndex = 21

\* the position at which a value first occurs in a sequence
FirstIndex(xs, x) == CHOOSE i \in 1..Len(xs) : xs[i] = x /\ \A j \in 1..(i - 1) : xs[j] # x

\* ys holds the distinct values of xs, each once, in the order of their
\* first occurrence in xs
FirstSeenOrder(ys, xs) ==
    /\ Range(ys) = Range(xs)
    /\ \A i, j \in 1..Len(ys) : i < j => FirstIndex(xs, ys[i]) < FirstIndex(xs, ys[j])

\* C27: every entry lands in exactly one unit, the unit of its grouping key;
\* units are ordered by first appearance of their key; within a unit the
\* entries keep input order; the unit's distinct labels and distinct
\* qualifying references keep the first occurrence of each value in
\* first-seen order (labels A, B, A give [A, B]).
C27_Grouping ==
    dpc = "grouped" =>
        /\ \A i \in 1..Len(entries) :
              /\ Cardinality({ g \in 1..Len(groups) :
                                  entries[i] \in Range(groups[g].entries) }) = 1
              /\ \E g \in 1..Len(groups) :
                    /\ groups[g].rcptMasterIndex = entries[i].rcptMasterIndex
                    /\ entries[i] \in Range(groups[g].entries)
        /\ FirstSeenOrder([g \in 1..Len(groups) |-> groups[g].rcptMasterIndex],
                          RcptMasterIndexOf(entries))
        /\ \A g \in 1..Len(groups) :
              LET unit == groups[g]
                  labels == [i \in 1..Len(unit.entries) |-> unit.entries[i].invNumber]
                  qualifying == SelectSeq(unit.entries, LAMBDA e : e.status = "CORRUPTED")
                  refs == [i \in 1..Len(qualifying) |-> qualifying[i].invMasterIndex]
              IN /\ \A i, j \in 1..Len(unit.entries) :
                        i < j => unit.entries[i].rawLine < unit.entries[j].rawLine
                 /\ FirstSeenOrder(unit.invNumbers, labels)
                 /\ FirstSeenOrder(unit.invMasterIndices, refs)
                 /\ labels = <<"A", "B", "A">> => unit.invNumbers = <<"A", "B">>

C27_Witness ==
    /\ dpc = "grouped" /\ Len(groups) = 1
    /\ [i \in 1..Len(entries) |-> entries[i].invNumber] = <<"A", "B", "A">>
    /\ groups[1].invNumbers = <<"A", "B">>

\* the lines of the aggregation's output file
OutputKeys ==
    SelectSeq(SplitLines(resources[OutputName]), LAMBDA line : line # <<>>)

\* the keys the ledger files hold in any of the three forms, as numbers
KeysInLedgers ==
    { DecimalValue(k) :
        k \in Range(ReceiptSet(resources, <<BlackListName, BlackListRunName>>)) }

\* C28: over ledger files that mix the new header format, the legacy
\* number-prefixed format and raw tab-separated lines, the aggregation
\* emits each grouping key found in any of these forms exactly once, and
\* the emitted list is in ascending numeric order with no two entries
\* numerically equal.
C28_AggregationSortedDistinct ==
    (dpc = "ledgers" /\ aggRuns >= 1) =>
        /\ { DecimalValue(OutputKeys[i]) : i \in 1..Len(OutputKeys) } = KeysInLedgers
        /\ \A i, j \in 1..Len(OutputKeys) :
              i < j => DecimalValue(OutputKeys[i]) < DecimalValue(OutputKeys[j])

\* C29: the aggregation is idempotent: run a second time over the same
\* ledger files, with the first run's output file in the same directory, it
\* scans the same ledger files and writes the same output.
C29_AggregationIdempotent ==
    [][(aggRuns = 1 /\ aggRuns' = 2) =>
          /\ scanned' = scanned
          /\ resources'[OutputName] = resources[OutputName]
          /\ resources' = resources]_vars

\* two runs made, over two ledger files holding keys in the three forms
C29_Witness ==
    /\ dpc = "ledgers" /\ aggRuns = 2
    /\ scanned = <<BlackListName, BlackListRunName>>
    /\ Len(OutputKeys) = 2
    /\ Len(SplitLines(resources[BlackListName])) > 2
    /\ Len(SplitLines(resources[BlackListRunName])) > 1

(* ------------------------- the run, scheduled -------------------------- *)
\* the test body is one sequential async function: as long as every awaited
\* call returns, its next statement is executed
\* the inputs of Init with fewer units and a shorter action list
InitLive ==
    /\ fileExists \in BOOLEAN
    /\ receiptBatchSize \in 0..LiveUnits
    /\ \/ /\ receiptGroups \in { u \in UnitLists : Len(u) <= LiveUnits }
          /\ pendingCap = 0
       \/ /\ receiptGroups \in { u \in PlainUnitLists : Len(u) <= LiveUnits }
          /\ pendingCap = LivePending
    /\ pendingScript = <<>>
    /\ InitRun
    /\ DataIdle
SpecLive == InitLive /\ [][Next]_vars /\ WF_vars(Next)

\* a polling wait is being executed
InWait == pc \in {"p1_wait", "p2_poll", "p3_wait"}

\* C30: no polling wait hangs: as long as every external call returns, the
\* phase 1 submit wait, the phase 3 submit wait and the job status poll each
\* return or fail; every pass that stays in the wait uses up one of the
\* polls that fit before the deadline, and the wait that ends by its
\* deadline ends in a timeout failure (a failure result for the two submit
\* waits, a thrown error for the job poll), never in success.
C30_NoPollingWaitHangs ==
    /\ InWait ~> ~InWait
    /\ [][/\ (InWait /\ pc' = pc) => polls' = polls + 1
          /\ (pc = "p1_wait" /\ polls >= MaxSubmitPolls) =>
                /\ pc' = "p1_classify" /\ ~submitResult'.success
                /\ submitResult'.popupMessage = Phase1TimeoutMessage(Phase1Label(Receipt))
          /\ (pc = "p3_wait" /\ polls >= MaxSubmitPolls) =>
                /\ pc' = "p3_result" /\ ~phase3Result'.success
                /\ phase3Result'.popupMessage = Phase3TimeoutMessage
          /\ (pc = "p2_poll" /\ polls >= MaxRunbookPolls) =>
                /\ error' = "Runbook did not complete"
                /\ 2 \notin phaseEnded'[batchIndex]
         ]_vars

\* the phase 1 submit wait has run out of polls and returned its timeout
C30_Witness ==
    /\ pc = "p1_classify" /\ polls = MaxSubmitPolls
    /\ ~submitResult.success
    /\ submitResult.popupMessage = Phase1TimeoutMessage(Phase1Label(Receipt))

(* ------------- properties of the phases' order of operations ----------- *)
\* no unit that survived phase 1 of the batch carries a qualifying reference
NoQualifyingReference ==
    \A i \in 1..Len(successfulReceipts) : receiptGroups[successfulReceipts[i]] = <<>>

\* the calls made on the job-execution session
JobCalls == {"jobStart", "refresh"}

\* C31: when no unit of a batch contributes a qualifying reference (no
\* survivor, or survivors with resolved entries only), phase 2 is a no-op:
\* no call is made on the job-execution session for that batch, and phase 3
\* of that batch still runs.
C31_EmptyPhase2IsNoOp ==
    (/\ batchIndex \in BatchIds /\ 1 \in phaseEnded[batchIndex]
     /\ NoQualifyingReference) =>
        /\ 2 \notin phaseStarted[batchIndex]
        /\ jobParams[batchIndex] = NoParam
        /\ ~(lastCall.kind \in JobCalls /\ lastCall.batch = batchIndex)
        /\ pc \in {"p2", "p3_enter"} \/ 3 \in phaseStarted[batchIndex]

\* a batch whose survivors hold resolved entries only is in its drain
C31_Witness ==
    /\ pc = "p3_iter" /\ Len(successfulReceipts) > 0 /\ NoQualifyingReference
    /\ phaseStarted[batchIndex] = {1, 3}
    /\ jobParams[batchIndex] = NoParam

\* C32: in the phase 1 submit wait the sentinel wins a race with a
\* notification: the wait returns a failure carrying a notification text
\* only if the index was read as not the sentinel both before the
\* notification was seen and in the re-read made after it; if either read
\* gave the sentinel the result is success, however the index change and the
\* notification interleave.
C32_SentinelWinsRace ==
    pc = "p1_classify" =>
        /\ (~submitResult.success /\ submitResult.popupMessage \in PopupMessages) =>
              /\ "sentinel" \notin waitSeen /\ "popup" \in waitSeen
              /\ "other reread" \in waitSeen /\ "sentinel reread" \notin waitSeen
        /\ ("sentinel" \in waitSeen \/ "sentinel reread" \in waitSeen) =>
              submitResult.success
        /\ "sentinel reread" \in waitSeen =>
              submitResult.popupMessage \in PopupMessages

\* the notification was seen and the re-read of the index gave the sentinel
C32_Witness ==
    /\ pc = "p1_classify" /\ waitSeen = {"popup", "sentinel reread"}
    /\ submitResult.success
    /\ submitResult.popupMessage = <<"Error:", BlockingPhrase>>

\* the positions of the running trigger's reads of the job status
StatusReads == { i \in 1..Len(jobEvents) : jobEvents[i] \in JobStatus }

\* C33: after the start action every read of the job status comes after a
\* refresh and the poll delay of the same pass; the trigger returns at the
\* first read that shows Completed and issues no refresh afterwards; it
\* fails only when the deadline has passed without a read showing Completed.
C33_JobPollingOrder ==
    /\ jobEvents # <<>> => jobEvents[1] = "start"
    /\ \A i \in StatusReads :
          /\ i >= 4 /\ jobEvents[i - 2] = "refresh" /\ jobEvents[i - 1] = "delay"
          /\ jobEvents[i] = "Completed" => i = Len(jobEvents) /\ pc = "p3_enter"
    /\ (pc = "p3_enter" /\ jobEvents # <<>>) =>
          jobEvents[Len(jobEvents)] = "Completed"
    /\ pc = "p2_poll" => \A i \in StatusReads : jobEvents[i] = "null"
    /\ error = "Runbook did not complete" =>
          /\ polls >= MaxRunbookPolls
          /\ Cardinality(StatusReads) = MaxRunbookPolls
          /\ \A i \in StatusReads : jobEvents[i] = "null"

\* the second read showed Completed and the trigger returned
C33_Witness ==
    /\ pc = "p3_enter"
    /\ jobEvents = <<"start", "refresh", "delay", "null", "refresh", "delay", "Completed">>

(* ------------- properties of the reconciliation of one unit ------------ *)
\* the positions in uiEvents of the events of one kind
EventsAt(kind) == { i \in 1..Len(uiEvents) : uiEvents[i][1] = kind }

\* the labels added so far, in the order of their adds
AddedLabels ==
    LET adds == SelectSeq(uiEvents, LAMBDA e : e[1] = "add")
    IN  [i \in 1..Len(adds) |-> adds[i][2]]

\* C34: for the unit under reconciliation, the remove-all (its click and the
\* closing of its menu) comes before the first add; the adds are the unit's
\* distinct labels in first-seen order, one add per label, never more than
\* the unit has; the submit is issued once, as the last step, after the add
\* of the last label.
C34_ReconciliationOrder ==
    dpc = "update" =>
        /\ EventsAt("add") # {} =>
              /\ EventsAt("menu closed") # {}
              /\ \A a \in EventsAt("add") :
                    \A r \in EventsAt("remove all clicked") \cup EventsAt("menu closed")
                             \cup EventsAt("menu opened") \cup EventsAt("escape") : r < a
        /\ AddedLabels = SubSeq(updReceipt.invNumbers, 1, Len(AddedLabels))
        /\ FirstSeenOrder(updReceipt.invNumbers, InvNumberOf(updReceipt.entries))
        /\ \A i, j \in 1..Len(AddedLabels) : i # j => AddedLabels[i] # AddedLabels[j]
        /\ EventsAt("submit") # {} =>
              /\ EventsAt("submit") = {Len(uiEvents)}
              /\ AddedLabels = updReceipt.invNumbers
              /\ uiEvents[Len(uiEvents) - 1] =
                    <<"add", updReceipt.invNumbers[Len(updReceipt.invNumbers)]>>
        /\ upc = "submitted" <=> EventsAt("submit") # {}

C34_Witness ==
    /\ dpc = "update" /\ upc = "submitted"
    /\ InvNumberOf(updReceipt.entries) = <<"B", "A", "B">>
    /\ uiEvents = <<<<"menu opened">>, <<"remove all clicked">>, <<"escape">>,
                    <<"menu opened">>, <<"remove all clicked">>, <<"menu closed">>,
                    <<"add", "B">>, <<"add", "A">>, <<"submit">>>>

\* the remove-all step has returned
RemoveAllReturned == dpc = "update" /\ upc \in {"add", "submit", "submitted"}

\* the remove-all step has failed with the error of an attempt
RemoveAllFailed == dpc = "update" /\ upc = "threw" /\ thrown.kind \in RemoveOutcomes

\* attempts are numbered from 1 and there is no fourth one; every failed
\* attempt is followed by the Escape key press; a returned call ended with
\* the first attempt that opened the menu, clicked the remove-all item and
\* saw the menu close, nothing of the remove-all step follows that; a
\* failed call made 3 attempts and throws the error of the third
RemoveAllAttempts ==
    /\ (dpc = "update" /\ upc = "remove") \/ RemoveAllReturned \/ RemoveAllFailed =>
          /\ attempt \in 1..4
          /\ Cardinality(EventsAt("menu opened")) <= 3
          /\ attempt > 1 => lastError.attempt = attempt - 1 /\ lastError.kind \in RemoveOutcomes \ {"ok"}
    /\ RemoveAllReturned =>
          /\ attempt <= 3
          /\ Cardinality(EventsAt("escape")) = attempt - 1
          /\ Cardinality(EventsAt("menu closed")) = 1
          /\ \E c \in EventsAt("menu closed") :
                /\ c >= 3 /\ uiEvents[c - 1] = <<"remove all clicked">>
                /\ uiEvents[c - 2] = <<"menu opened">>
                /\ \A i \in 1..Len(uiEvents) :
                      i > c => uiEvents[i][1] \in {"add", "submit"}
                /\ \A i \in 1..(c - 3) : uiEvents[i][1] # "menu closed"
    /\ RemoveAllFailed =>
          /\ attempt = 4 /\ thrown = lastError /\ thrown.attempt = 3
          /\ Cardinality(EventsAt("escape")) = 3
          /\ EventsAt("menu closed") = {} /\ EventsAt("add") = {}

\* C39 as stated: at most 3 attempts, return at the first successful one, no
\* attempt after a success, the last attempt's error after 3 failures, and
\* one click at most on the remove-all item in a call that returns.
C39_ClickedOncePerSuccessfulCall ==
    /\ RemoveAllAttempts
    /\ RemoveAllReturned => Cardinality(EventsAt("remove all clicked")) <= 1

\* C39, amended: at most 3 attempts, return at the first successful one, no
\* attempt after a success, the last attempt's error after 3 failures; the
\* remove-all item is clicked at most once per attempt, so up to 3 times in
\* a call, the last click of a returning call being that of its successful
\* attempt.
C39_RemoveAllRetries ==
    /\ RemoveAllAttempts
    /\ dpc = "update" =>
          /\ Cardinality(EventsAt("remove all clicked")) <= 3
          /\ \A i, j \in EventsAt("remove all clicked") :
                i < j => \E e \in EventsAt("escape") : i < e /\ e < j
    /\ RemoveAllReturned =>
          Cardinality(EventsAt("remove all clicked")) <= attempt

C39_Witness ==
    /\ RemoveAllReturned /\ attempt = 3 /\ upc = "add" /\ invoiceIndex = 0
    /\ uiEvents = <<<<"menu opened">>, <<"remove all clicked">>, <<"escape">>,
                    <<"escape">>,
                    <<"menu opened">>, <<"remove all clicked">>, <<"menu closed">>>>

(* ------------- properties of the Folder dialog ------------------------- *)
\* the steps of the dialog that come after its two checkboxes
AfterToggles == EventsAt("date") \cup EventsAt("reason") \cup EventsAt("submit")

\* C35: in the Folder dialog Reversal is toggled before Reallocate, each
\* once, and both before the date and the reason are filled and before the
\* submit; the unit is selected from the filtered list exactly when the code
\* taken from the type label's prefix is not 9100.
C35_FolderDialogOrder ==
    dpc = "folder" =>
        /\ Cardinality(EventsAt("reversal")) <= 1
        /\ Cardinality(EventsAt("reallocate")) <= 1
        /\ \A b \in EventsAt("reallocate") : \E a \in EventsAt("reversal") : a < b
        /\ \A c \in AfterToggles :
              /\ \E a \in EventsAt("reversal") : a < c
              /\ \E b \in EventsAt("reallocate") : b < c
        /\ \A d \in EventsAt("date") : \A r \in EventsAt("reason") : d < r
        /\ \A c \in EventsAt("date") \cup EventsAt("reason") :
              \A sub \in EventsAt("submit") : c < sub
        /\ upc = "submitted" =>
              /\ EventsAt("submit") = {Len(uiEvents)}
              /\ EventsAt("date") # {} /\ EventsAt("reason") # {}
        /\ EventsAt("select unit") # {} =>
              /\ Trim(SplitOn(rcptType, "-")[1]) # <<"9", "1", "0", "0">>
              /\ EventsAt("select unit") = {2}
              /\ uiEvents[2][2] = Trim(SplitOn(rcptType, "-")[1])
        /\ upc \in {"reversal", "reallocate", "fill", "submit", "submitted"} =>
              (EventsAt("select unit") # {}
                  <=> Trim(SplitOn(rcptType, "-")[1]) # <<"9", "1", "0", "0">>)

C35_Witness ==
    /\ dpc = "folder" /\ upc = "submitted"
    /\ rcptType = <<" ", "9", "1", "0", "0", " ", "-", "A">>
    /\ uiEvents = <<<<"folder dialog">>, <<"reversal">>, <<"reallocate">>, <<"date">>,
                    <<"reason">>, <<"submit">>>>

(* ------------- properties of the drain's pairing of units and items ---- *)
\* C36: every item the drain updates with a popped unit is the item that
\* unit's phase 1 created: never a leftover of an earlier run or batch, never
\* the item of another unit, also after a failed submit left an item at the
\* tail.
C36_PoppedUnitOwnsOpenedItem ==
    dpc = "drain" =>
        \A i \in EventsAt("update") : uiEvents[i][3] = uiEvents[i][2]

(* ------------- properties of the ledger's entries per unit ------------- *)
\* the positions of the ledger's entries for a unit
EntriesOf(key) == { i \in 1..Len(blackList) : blackList[i].receipt = key }

\* C37: in one run no grouping key has two ledger entries: a unit ledgered
\* in phase 1 is not among the survivors handed to phase 3, a unit waiting in
\* the phase 3 queue has no entry, and the unit popped for the iteration
\* under way is no longer in the queue and was not ledgered before its
\* submit.
C37_OneLedgerEntryPerUnit ==
    /\ \A key \in 1..MaxUnits : Cardinality(EntriesOf(key)) <= 1
    /\ \A i \in 1..Len(receiptQueue) :
          /\ EntriesOf(receiptQueue[i]) = {}
          /\ \A j \in 1..Len(receiptQueue) : receiptQueue[i] = receiptQueue[j] => i = j
    /\ pc \in {"p2", "p2_start", "p2_poll", "p3_enter"} =>
          \A i \in 1..Len(successfulReceipts) : EntriesOf(successfulReceipts[i]) = {}
    /\ (pc \in DrainBody \ {"p3_open"} /\ currentReceipt # 0) =>
          /\ \A i \in 1..Len(receiptQueue) : receiptQueue[i] # currentReceipt
          /\ EntriesOf(currentReceipt) = {}

C37_Witness ==
    /\ pc = "p3_iter" /\ Len(blackList) = 2
    /\ blackList[1].receipt = 1 /\ blackList[2].receipt = 2
    /\ successfulReceipts = <<2>> /\ receiptQueue = <<>> /\ currentReceipt = 2

(* ------------- properties of the ledger's round trip ------------------- *)
\* the keys of the units the run recorded
RecordedKeys == { uiEvents[i][2] : i \in EventsAt("record") }

\* the run's ledger is written and the aggregation has run on it
Aggregated == dpc = "ledgers" /\ aggRuns > 0 /\ uiEvents # <<>>

\* the numbers the lines of the aggregation's output stand for
EmittedKeys == { DecimalValue(OutputKeys[i]) : i \in 1..Len(OutputKeys) }

\* the aggregation emits the key of every recorded unit whose key is not
\* negative, and of no other; every emitted key is the key of a recorded
\* unit, so the entry of an unknown item adds none
NonNegativeKeysEmitted ==
    Aggregated =>
        /\ \A key \in RecordedKeys : key >= 0 <=> key \in EmittedKeys
        /\ EmittedKeys \subseteq RecordedKeys

\* C38: the aggregation over a run's ledger file emits the grouping key of
\* every unit the run recorded with a numeric key; the entry of an unknown
\* item adds no key.
C38_EveryRecordedKeyEmitted ==
    Aggregated =>
        /\ RecordedKeys \subseteq EmittedKeys
        /\ EventsAt("record") = {} => OutputKeys = <<>>

\* a run that recorded the units 5 and 12 and an unknown item
RoundTripReached ==
    /\ Aggregated /\ aggRuns = 1
    /\ uiEvents = <<<<"record", 5>>, <<"unknown">>, <<"record", 12>>>>
    /\ OutputKeys = <<<<"5">>, <<"1", "2">>>>

====
